---- MODULE Spec2Model ----
(***************************************************************************)
(* A model of the git client of this repository: the loose object store,   *)
(* write_tree, the checkout and clone (lib.rs), the packet-line codec      *)
(* (pkt.rs), the pack parser, its varints and the delta resolver           *)
(* (pack.rs), ref discovery and the pack request (client.rs).              *)
(*                                                                         *)
(* A byte string (Bytes, Vec<u8>, &[u8]) is kept run-length encoded: a     *)
(* sequence of runs <<byte, count>>, count > 0, neighbouring runs of       *)
(* different bytes, so that equal byte strings are equal values and a      *)
(* 65536-byte object is a small value.  Bytes are numbers in 0..255.       *)
(* A u64 is the set of the positions of its one bits (a subset of 0..63),  *)
(* so that values above 2^31 are shifted and or-ed exactly.                *)
(***************************************************************************)
EXTENDS Integers, Sequences, FiniteSets, TLC

(***************************************************************************)
(* Bounds of the model.                                                    *)
(***************************************************************************)
\* longest content of an object handed to store_object by a command
MaxContentLen == 2
\* number of store_object / get_object calls made on one repository
MaxCalls == 2
\* longest payload of the small packets handed to Pkt::as_bytes
MaxPayloadLen == 2

VARIABLES
    files,      \* the object directory: ObjectId -> bytes of the loose object file
    stored,     \* history: the (object, id) pairs store_object has returned
    got,        \* the last get_object call: its id and its result
    calls,      \* number of calls made so far
    pktIn,      \* the packet last given to Pkt::as_bytes (kind "none": a raw read)
    pktEnc,     \* what Pkt::as_bytes returned for it
    pktWire,    \* the buffer Pkt::read_line was called on
    pktOut,     \* what Pkt::read_line did: its result and the buffer left
    vOp,        \* which varint reader ran, on an encoding or on a raw buffer
    vIn,        \* the (type, value) that was encoded
    vEnc,       \* its encoding
    vBuf,       \* the buffer the reader was called on
    overflowChecks, \* whether the build checks arithmetic overflow (dev) or not (release)
    vOut,       \* what the reader did: its result and the buffer left
    pc,         \* explode_into_repo: "idle", "storing", "deltas", then "Ok", "Err" or "Panic"
    entries,    \* the entries of the pack the first loop has not reached
    deltas,     \* the deltas queued by the first loop and not yet resolved
    resolved,   \* history: each delta the second loop took, and what came of it
    fnOp,       \* the function called on a raw input ("none": not yet)
    fnIn,       \* its input
    fnPlan,     \* what the input was built from
    fnOut,      \* its result
    phase,      \* clone: "idle", the phase the run is in, then "Done" or "Failed"
    trace,      \* history: the phases the run has entered
    remote,     \* the responses of the server to the two requests of clone
    requests,   \* the pack requests clone has sent: their bodies, in order
    advertisedRefs, \* the refs discover_refs returned
    packData,   \* the pack bytes request_pack returned
    refsWritten, \* the tag and branch files have been written
    cloneDir,   \* the clone directory: its directories and its files, by path
    result      \* how clone ended: "none", "Ok", "Err" or "Panic"

storeVars == <<files, stored, got, calls>>

pktVars == <<pktIn, pktEnc, pktWire, pktOut>>

varIntVars == <<vOp, vIn, vEnc, vBuf, overflowChecks, vOut>>

packVars == <<pc, entries, deltas, resolved>>

fnVars == <<fnOp, fnIn, fnPlan, fnOut>>

cloneVars ==
    <<phase, trace, remote, requests, advertisedRefs, packData, refsWritten, cloneDir, result>>

extVars == <<fnVars, cloneVars>>

vars == <<files, stored, got, calls, pktIn, pktEnc, pktWire, pktOut,
          vOp, vIn, vEnc, vBuf, overflowChecks, vOut, pc, entries, deltas, resolved,
          fnOp, fnIn, fnPlan, fnOut,
          phase, trace, remote, requests, advertisedRefs, packData, refsWritten, cloneDir, result>>

(***************************************************************************)
(* Byte strings.                                                           *)
(***************************************************************************)
NUL == 0
SP == 32

\* F applied to the value e: the body of F names e once
Bind(e, F(_)) == F(e)

\* sequences over S of length at most n
SeqsUpTo(S, n) == UNION {[1..k -> S] : k \in 0..n}

\* len(); the runs are summed by halves, which keeps the evaluation shallow
RECURSIVE BLen(_)
BLen(s) ==
    IF s = <<>> THEN 0
    ELSE IF Len(s) = 1 THEN s[1][2]
    ELSE BLen(SubSeq(s, 1, Len(s) \div 2)) + BLen(SubSeq(s, Len(s) \div 2 + 1, Len(s)))

\* s without its first n bytes (Buf::advance, &s[n..])
RECURSIVE Drop(_, _)
Drop(s, n) ==
    IF n <= 0 \/ s = <<>> THEN s
    ELSE IF s[1][2] > n THEN <<<<s[1][1], s[1][2] - n>>>> \o Tail(s)
    ELSE IF Len(s) = 1 THEN <<>>
    ELSE LET left == SubSeq(s, 1, Len(s) \div 2)
             right == SubSeq(s, Len(s) \div 2 + 1, Len(s))
         IN IF BLen(left) <= n THEN Drop(right, n - BLen(left)) ELSE Drop(left, n) \o right

\* the first n bytes of s (&s[..n])
RECURSIVE Take(_, _)
Take(s, n) ==
    IF n <= 0 \/ s = <<>> THEN <<>>
    ELSE IF s[1][2] >= n THEN <<<<s[1][1], n>>>>
    ELSE IF Len(s) = 1 THEN s
    ELSE LET left == SubSeq(s, 1, Len(s) \div 2)
             right == SubSeq(s, Len(s) \div 2 + 1, Len(s))
         IN IF BLen(left) <= n THEN left \o Take(right, n - BLen(left)) ELSE Take(left, n)

\* the bytes at positions from..to, counted from 1
Slice(s, from, to) == Take(Drop(s, from - 1), to - from + 1)

\* the byte at position i, counted from 1
At(s, i) == Drop(s, i - 1)[1][1]

\* s followed by t (BufMut::put, write_all)
Cat(s, t) ==
    IF s = <<>> THEN t
    ELSE IF t = <<>> THEN s
    ELSE IF s[Len(s)][1] = t[1][1]
         THEN SubSeq(s, 1, Len(s) - 1) \o <<<<t[1][1], s[Len(s)][2] + t[1][2]>>>> \o Tail(t)
         ELSE s \o t

\* n times the byte b
Rep(b, n) == IF n <= 0 THEN <<>> ELSE <<<<b, n>>>>

\* the byte string of a list of bytes
RECURSIVE Bytes(_)
Bytes(list) == IF list = <<>> THEN <<>> ELSE Cat(Rep(list[1], 1), Bytes(Tail(list)))

\* position of the first byte b of s, counted from 1; 0 when there is none
IndexOf(s, b) ==
    IF \A i \in 1..Len(s) : s[i][1] # b THEN 0
    ELSE LET k == CHOOSE i \in 1..Len(s) : s[i][1] = b /\ \A j \in 1..(i - 1) : s[j][1] # b
         IN BLen(SubSeq(s, 1, k - 1)) + 1

\* bytes::Bytes::starts_with / slice::starts_with
StartsWith(s, prefix) == Take(s, BLen(prefix)) = prefix

\* BufRead::read_until: length of the prefix of s that ends with the first
\* delimiter, or the whole of s when there is none
ReadUntilLen(s, delim) == IF IndexOf(s, delim) = 0 THEN BLen(s) ELSE IndexOf(s, delim)

(***************************************************************************)
(* Objects (lib.rs).                                                       *)
(***************************************************************************)
ObjectTypes == {"Blob", "Tree", "Commit"}

\* impl Display for ObjectType: "blob", "tree", "commit" in ASCII
ObjectTypeName(t) ==
    CASE t = "Blob" -> Bytes(<<98, 108, 111, 98>>)
      [] t = "Tree" -> Bytes(<<116, 114, 101, 101>>)
      [] t = "Commit" -> Bytes(<<99, 111, 109, 109, 105, 116>>)

\* format!("{}", n) for a usize: decimal digits in ASCII
RECURSIVE Decimal(_)
Decimal(n) ==
    IF n < 10 THEN Rep(48 + n, 1) ELSE Cat(Decimal(n \div 10), Rep(48 + (n % 10), 1))

\* faulty variant: the header without its terminating NUL
ObjectHeaderNoNul(object) ==
    Cat(ObjectTypeName(object.object_type), Cat(Rep(SP, 1), Decimal(BLen(object.content))))

\* store_object: format!("{} {}\0", object.object_type, object.content.len())
ObjectHeader(object) ==
    Cat(ObjectTypeName(object.object_type),
        Cat(Rep(SP, 1), Cat(Decimal(BLen(object.content)), Rep(NUL, 1))))

\* Sha1::new / update / finalize: the digest of a byte string is a value in
\* one-to-one correspondence with the hashed bytes (SHA-1 taken as
\* collision free); an ObjectId is such a digest.
Sha1(data) == [sha1 |-> data]

\* faulty variant: the header is left out of the hash
HashContentOnly(object) == Sha1(object.content)

\* store_object: hasher.update(header), hasher.update(content), finalize
ObjectIdOf(object) == Sha1(Cat(ObjectHeader(object), object.content))

\* flate2 ZlibEncoder: a zlib stream is a stream marker, the length of the
\* block and the block; the decoder stops at the end of the block whatever
\* follows it in the file.
ZLIB_MAGIC == 120

ZlibEncode(data) == Cat(Rep(ZLIB_MAGIC, 1), Cat(Rep(BLen(data), 1), data))

\* flate2 ZlibDecoder, read to the end of the stream
ZlibDecode(stream) ==
    IF /\ BLen(stream) >= 2
       /\ At(stream, 1) = ZLIB_MAGIC
       /\ BLen(stream) >= 2 + At(stream, 2)
    THEN [ok |-> TRUE, data |-> Slice(stream, 3, 2 + At(stream, 2))]
    ELSE [ok |-> FALSE, data |-> <<>>]

\* File::options().create(true).write(true): the file is not truncated, the
\* bytes written replace the start of what was there
WriteNoTruncate(old, new) == Cat(new, Drop(old, BLen(new)))

\* GitRepo::store_object: the id returned and the object directory after it
store_object(fs, object) ==
    Bind(ObjectIdOf(object), LAMBDA oid :
    LET header == ObjectHeader(object)
        old == IF oid \in DOMAIN fs THEN fs[oid] ELSE <<>>
        new == WriteNoTruncate(old, ZlibEncode(Cat(header, object.content)))
    IN [oid |-> oid,
        files |-> [p \in DOMAIN fs \cup {oid} |-> IF p = oid THEN new ELSE fs[p]]])

GetErr == [ok |-> FALSE, object_type |-> "none", content |-> <<>>]

\* reader.read_until(0u8, ..): the header ends at the first NUL byte
HeaderEnd(data) == ReadUntilLen(data, NUL)

\* GitRepo::get_object
get_object(fs, oid) ==
    IF oid \notin DOMAIN fs THEN GetErr
    ELSE Bind(ZlibDecode(fs[oid]), LAMBDA z :
         IF ~z.ok THEN GetErr
         ELSE Bind(HeaderEnd(z.data), LAMBDA n :
              Bind(Take(z.data, n), LAMBDA buf :
              Bind(IF StartsWith(buf, Cat(ObjectTypeName("Blob"), Rep(SP, 1))) THEN "Blob"
                   ELSE IF StartsWith(buf, Cat(ObjectTypeName("Tree"), Rep(SP, 1))) THEN "Tree"
                   ELSE IF StartsWith(buf, Cat(ObjectTypeName("Commit"), Rep(SP, 1)))
                        THEN "Commit"
                   ELSE "none", LAMBDA obj_type :
              IF obj_type = "none" THEN GetErr
              ELSE [ok |-> TRUE, object_type |-> obj_type, content |-> Drop(z.data, n)]))))

(***************************************************************************)
(* The object store as a state machine: commands that store an object      *)
(* (hash_object, write_tree_dir, commit_tree) and commands that read one   *)
(* (cat_file, read_tree) on an initialised repository.                     *)
(***************************************************************************)
ContentBytes == {NUL, 98}

Contents == {Bytes(c) : c \in SeqsUpTo(ContentBytes, MaxContentLen)}

Objects == [object_type : ObjectTypes, content : Contents]

NoGet == [called |-> FALSE, oid |-> Sha1(<<>>), res |-> GetErr]

StoreInit ==
    /\ files = << >>
    /\ stored = {}
    /\ got = NoGet
    /\ calls = 0

\* hash_object / write_tree_dir / commit_tree: one store_object call
StoreObject(object) ==
    /\ calls < MaxCalls
    /\ \E r \in {store_object(files, object)} :
        /\ files' = r.files
        /\ stored' = stored \cup {[obj |-> object, oid |-> r.oid]}
    /\ calls' = calls + 1
    /\ UNCHANGED <<got, pktVars, varIntVars, packVars, extVars>>

\* cat_file / read_tree: one get_object call, for an id that is in the
\* store or for one that is not
GetObject(oid) ==
    /\ calls < MaxCalls
    /\ got' = [called |-> TRUE, oid |-> oid, res |-> get_object(files, oid)]
    /\ calls' = calls + 1
    /\ UNCHANGED <<files, stored, pktVars, varIntVars, packVars, extVars>>

\* the id of an object that no command stores
AbsentId == ObjectIdOf([object_type |-> "Blob", content |-> Rep(120, 1)])

StoreNext ==
    \/ \E object \in Objects : StoreObject(object)
    \/ \E oid \in DOMAIN files \cup {AbsentId} : GetObject(oid)

(***************************************************************************)
(* Claims about the object store, checked under Spec.                      *)
(***************************************************************************)
\* C1: for every object handed to store_object, get_object of the returned id
\* gives back an object of the same type with byte-identical content, and the
\* same (type, content) always got the same id.
C1_StoreGetRoundTrip ==
    /\ \A r \in stored :
          get_object(files, r.oid) =
              [ok |-> TRUE, object_type |-> r.obj.object_type, content |-> r.obj.content]
    /\ \A r1, r2 \in stored : r1.obj = r2.obj => r1.oid = r2.oid

\* two objects are in the store, one of them with a NUL byte in its content
C1_Witness ==
    /\ Cardinality(stored) = 2
    /\ \E r \in stored : r.obj.content = Bytes(<<NUL, 98>>) /\ r.oid \in DOMAIN files

\* every id of the object directory reads back as one (type, content) pair,
\* the pair whose "{type} {len}\0" + content hashes to that id
C2_IdMatchesContent ==
    \A oid \in DOMAIN files :
        LET r == get_object(files, oid) IN
        /\ r.ok
        /\ oid = Sha1(Cat(ObjectTypeName(r.object_type),
                          Cat(Rep(SP, 1),
                              Cat(Decimal(BLen(r.content)), Cat(Rep(NUL, 1), r.content)))))

\* C2: after any sequence of store_object calls every id present is associated
\* with exactly the pair that hashes to it, and storing an object whose id is
\* already present leaves the object directory unchanged.  (A step that
\* counts a call and leaves got alone is a store_object call; it adds no id
\* exactly when the id of its object was present.)
C2_ContentAddressed ==
    /\ []C2_IdMatchesContent
    /\ [][(calls' # calls /\ got' = got /\ DOMAIN files' = DOMAIN files) => files' = files]_vars

\* the same object was stored twice
C2_Witness ==
    /\ calls = 2
    /\ ~got.called
    /\ Cardinality(DOMAIN files) = 1

(***************************************************************************)
(* Packet lines (pkt.rs).                                                  *)
(***************************************************************************)
\* one lowercase hex digit in ASCII
HexDigit(d) == IF d < 10 THEN 48 + d ELSE 87 + d

RECURSIVE HexDigits(_)
HexDigits(n) ==
    IF n < 16 THEN Rep(HexDigit(n), 1)
    ELSE Cat(HexDigits(n \div 16), Rep(HexDigit(n % 16), 1))

\* format!("{:04x}", n): lowercase hex, zero padded to at least 4 digits
Hex04(n) == Cat(Rep(48, 4 - BLen(HexDigits(n))), HexDigits(n))

\* the value of an ASCII hex digit as hex::decode reads it, -1 when it is none
HexCharVal(c) ==
    IF c \in 48..57 THEN c - 48
    ELSE IF c \in 97..102 THEN c - 87
    ELSE IF c \in 65..70 THEN c - 55
    ELSE -1

\* hex::decode of the 4 bytes of the length prefix: 2 bytes, or an error
HexDecode4(size) ==
    IF \E i \in 1..4 : HexCharVal(At(size, i)) = -1
    THEN [ok |-> FALSE, bytes |-> <<>>]
    ELSE [ok |-> TRUE,
          bytes |-> <<HexCharVal(At(size, 1)) * 16 + HexCharVal(At(size, 2)),
                      HexCharVal(At(size, 3)) * 16 + HexCharVal(At(size, 4))>>]

\* u16::from_be_bytes
U16FromBe(b) == b[1] * 256 + b[2]

PktFlush == [kind |-> "Flush", data |-> <<>>]

PktData(data) == [kind |-> "Data", data |-> data]

\* b"0000"
FlushMarker == Rep(48, 4)

\* faulty variant: the length prefix counts the payload only
as_bytes_payload_len(pkt) ==
    IF pkt.kind = "Flush" THEN FlushMarker
    ELSE Cat(Hex04(BLen(pkt.data)), pkt.data)

\* Pkt::as_bytes
as_bytes(pkt) ==
    IF pkt.kind = "Flush" THEN FlushMarker
    ELSE Cat(Hex04(BLen(pkt.data) + 4), pkt.data)

ReadResult(kind, data, rest) == [kind |-> kind, data |-> data, rest |-> rest]

\* faulty variant: the prefix is taken as the payload length
read_line_no_sub(buf) ==
    IF BLen(buf) < 4 THEN ReadResult("Panic", <<>>, buf)
    ELSE LET size == Take(buf, 4)
             rest == Drop(buf, 4)
         IN IF size = FlushMarker THEN ReadResult("Flush", <<>>, rest)
            ELSE LET dec == HexDecode4(size) IN
                 IF ~dec.ok THEN ReadResult("Err", <<>>, rest)
                 ELSE LET n == U16FromBe(dec.bytes) IN
                      IF n > BLen(rest) THEN ReadResult("Panic", <<>>, rest)
                      ELSE ReadResult("Data", Take(rest, n), Drop(rest, n))

\* Pkt::read_line: the packet returned ("Flush", "Data"), an error value
\* ("Err") or a panic ("Panic"), and the bytes left in the buffer.
\*  - copy_to_slice panics when fewer than 4 bytes remain;
\*  - `size as usize - 4` with size < 4 panics on the subtraction where
\*    overflow is checked, and wraps to a length no buffer holds elsewhere,
\*    where copy_to_bytes panics: a panic in every build;
\*  - copy_to_bytes panics when fewer bytes remain than asked for.
read_line(buf) ==
    IF BLen(buf) < 4 THEN ReadResult("Panic", <<>>, buf)
    ELSE Bind(Take(buf, 4), LAMBDA size :
         Bind(Drop(buf, 4), LAMBDA rest :
         IF size = FlushMarker THEN ReadResult("Flush", <<>>, rest)
         ELSE Bind(HexDecode4(size), LAMBDA dec :
              IF ~dec.ok THEN ReadResult("Err", <<>>, rest)
              ELSE Bind(U16FromBe(dec.bytes), LAMBDA n :
                   IF n < 4 THEN ReadResult("Panic", <<>>, rest)
                   ELSE IF n - 4 > BLen(rest) THEN ReadResult("Panic", <<>>, rest)
                   ELSE ReadResult("Data", Take(rest, n - 4), Drop(rest, n - 4))))))

(***************************************************************************)
(* The codec driven on bounded inputs: packets that are encoded and read   *)
(* back, and raw buffers that are read.                                    *)
(***************************************************************************)
PayloadBytes == {NUL, 10, 48}

\* payload lengths beyond the small ones: hex digits a..f in each position of
\* the prefix, and the largest payloads a 4-digit prefix can announce
LongPayloadLens == {6, 11, 251, 252, 4092, 43686, 65515, 65516, 65531}

Packets ==
    {PktFlush} \cup {PktData(Bytes(p)) : p \in SeqsUpTo(PayloadBytes, MaxPayloadLen)}
               \cup {PktData(Cat(Rep(97, n - 1), Rep(10, 1))) : n \in LongPayloadLens}

\* what follows the packet in the buffer
Tails == {<<>>, Bytes(<<48, 48>>), Bytes(<<48, 48, 48, 52, 10>>)}

PrefixChars == {48, 49, 52, 53, 102, 70, 103}

\* raw buffers: every 4-character prefix over PrefixChars with a short rest,
\* and buffers shorter than a prefix
RawBuffers ==
    {Cat(Bytes(p), Bytes(t)) : p \in [1..4 -> PrefixChars], t \in SeqsUpTo({97}, 1)}
    \cup {Bytes(t) : t \in SeqsUpTo({48}, 3)}

\* raw buffers with a prefix near the top of the range: "fff1" and "ffff" with
\* all of the payload, "fff0" with one byte too few
LongRawBuffers ==
    {Cat(Bytes(<<102, 102, 102, 49>>), Rep(97, 65517)), Cat(Rep(102, 4), Rep(97, 65531)),
     Cat(Bytes(<<102, 102, 102, 48>>), Rep(97, 65515))}

NoPkt == [kind |-> "none", data |-> <<>>]

PktInit ==
    /\ pktIn = NoPkt
    /\ pktEnc = <<>>
    /\ pktWire = <<>>
    /\ pktOut = ReadResult("none", <<>>, <<>>)

\* encode a packet, then read a line from what was written
PktRoundTrip(pkt, tail) ==
    /\ pktOut.kind = "none"
    /\ pktIn' = pkt
    /\ pktEnc' = as_bytes(pkt)
    /\ pktWire' = Cat(as_bytes(pkt), tail)
    /\ pktOut' = read_line(Cat(as_bytes(pkt), tail))
    /\ UNCHANGED <<storeVars, varIntVars, packVars, extVars>>

\* read a line from a buffer received from the remote
PktReadLine(buf) ==
    /\ pktOut.kind = "none"
    /\ pktIn' = NoPkt
    /\ pktEnc' = <<>>
    /\ pktWire' = buf
    /\ pktOut' = read_line(buf)
    /\ UNCHANGED <<storeVars, varIntVars, packVars, extVars>>

\* one call per run
PktNext ==
    /\ pktOut.kind = "none"
    /\ \/ \E pkt \in Packets, tail \in Tails : PktRoundTrip(pkt, tail)
       \/ \E buf \in RawBuffers : PktReadLine(buf)
       \/ \E buf \in LongRawBuffers : PktReadLine(buf)

(***************************************************************************)
(* Claims about the packet-line codec, checked under SpecPkt.              *)
(***************************************************************************)
\* the length prefix of the buffer read, as a number (-1: not valid hex)
WirePrefixValue ==
    IF BLen(pktWire) < 4 THEN -1
    ELSE LET dec == HexDecode4(Take(pktWire, 4)) IN
         IF dec.ok THEN U16FromBe(dec.bytes) ELSE -1

\* C3: for every payload p of at most 65516 bytes, read_line of
\* as_bytes(Data(p)) returns Data(p) and consumes exactly the encoded bytes;
\* read_line of as_bytes(Flush) returns Flush.
C3_PktRoundTrip ==
    /\ (pktIn.kind = "Data" /\ BLen(pktIn.data) <= 65516) =>
          /\ pktOut.kind = "Data"
          /\ pktOut.data = pktIn.data
          /\ Cat(pktEnc, pktOut.rest) = pktWire
    /\ pktIn.kind = "Flush" =>
          /\ pktOut.kind = "Flush"
          /\ Cat(pktEnc, pktOut.rest) = pktWire

\* the largest payload of the claim was read back, with bytes following it
C3_Witness ==
    /\ pktIn.kind = "Data"
    /\ BLen(pktIn.data) = 65516
    /\ pktOut.kind = "Data"
    /\ pktOut.rest = Bytes(<<48, 48>>)

\* C4 as stated: as_bytes of a Data packet with a zero-length payload is the
\* flush marker "0000".
C4_EmptyDataIsFlushMarker ==
    (pktIn.kind = "Data" /\ pktIn.data = <<>>) => pktEnc = FlushMarker

\* C4 as amended: as_bytes of a Data packet with a zero-length payload is the
\* 4 bytes "0004" and no payload bytes; the flush marker "0000" is produced
\* for Pkt::Flush and for no Data packet.
C4_EmptyDataIsLength4 ==
    /\ (pktIn.kind = "Data" /\ pktIn.data = <<>>) => pktEnc = Bytes(<<48, 48, 48, 52>>)
    /\ pktIn.kind = "Data" => pktEnc # FlushMarker
    /\ pktIn.kind = "Flush" => pktEnc = FlushMarker

\* an empty Data packet was encoded and read back as Data
C4_Witness ==
    /\ pktIn = PktData(<<>>)
    /\ BLen(pktEnc) = 4
    /\ pktOut.kind = "Data"

\* C5: read_line returns an error value when the length prefix is not valid
\* hex, and when fewer payload bytes remain than the prefix advertises.
C5_MalformedIsError ==
    (pktIn.kind = "none" /\ BLen(pktWire) >= 4) =>
        /\ WirePrefixValue = -1 => pktOut.kind = "Err"
        /\ (WirePrefixValue >= 4 /\ BLen(pktWire) - 4 < WirePrefixValue - 4) =>
              pktOut.kind = "Err"

\* C6: for every prefix value L other than 0, read_line yields a Data packet
\* (of L-4 bytes) only when 4 <= L <= 65520, and rejects L in 1..3 and
\* L > 65520 with an error.
C6_LengthRange ==
    (pktIn.kind = "none" /\ WirePrefixValue > 0) =>
        /\ pktOut.kind = "Data" =>
              /\ WirePrefixValue >= 4
              /\ WirePrefixValue <= 65520
              /\ BLen(pktOut.data) = WirePrefixValue - 4
        /\ (WirePrefixValue < 4 \/ WirePrefixValue > 65520) => pktOut.kind = "Err"

(***************************************************************************)
(* Variable-length integers of the pack format (pack.rs).                  *)
(***************************************************************************)
\* the u64 of a number below 2^31 (`as u64`)
BitsOf(n) == {i \in 0..30 : (n \div 2^i) % 2 = 1}

\* the number of a u64 below 2^31 (`as usize`)
RECURSIVE NatOf(_)
NatOf(bits) ==
    IF bits = {} THEN 0
    ELSE LET i == CHOOSE i \in bits : TRUE IN 2^i + NatOf(bits \ {i})

\* u64 << k for k < 64: the bits shifted out at the top are lost
Shl(bits, k) == {i + k : i \in bits} \cap (0..63)

\* `x << shift_offset` on a u64: a shift of 64 or more panics where overflow
\* is checked (the dev profile) and is taken modulo 64 elsewhere (release)
ShlChecked(bits, k, overflow_checks) ==
    IF k < 64 THEN [ok |-> TRUE, bits |-> Shl(bits, k)]
    ELSE IF overflow_checks THEN [ok |-> FALSE, bits |-> {}]
    ELSE [ok |-> TRUE, bits |-> Shl(bits, k % 64)]

VarIntResult(kind, typ, value, rest) ==
    [kind |-> kind, typ |-> typ, value |-> value, rest |-> rest]

\* faulty variant: the loop of read_type_and_var_int ending on `b < 127`
RECURSIVE type_and_var_int_loop_lt(_, _, _, _, _)
type_and_var_int_loop_lt(buf, res, shift_offset, typ, overflow_checks) ==
    IF buf = <<>> THEN VarIntResult("Panic", typ, res, buf)
    ELSE LET b == At(buf, 1)
             rest == Drop(buf, 1)
             first == shift_offset = 0
             sh == ShlChecked(BitsOf(b % 128), shift_offset, overflow_checks)
             typ2 == IF first THEN (b \div 16) % 8 ELSE typ
             res2 == IF first THEN BitsOf(b % 16) ELSE res \cup sh.bits
             shift2 == IF first THEN 4 ELSE shift_offset + 7
         IN IF ~first /\ ~sh.ok THEN VarIntResult("Panic", typ, res, rest)
            ELSE IF b < 127 THEN VarIntResult("Ok", typ2, res2, rest)
            ELSE type_and_var_int_loop_lt(rest, res2, shift2, typ2, overflow_checks)

\* the loop of read_type_and_var_int: one get_u8 per turn, which panics on
\* an empty buffer
RECURSIVE type_and_var_int_loop(_, _, _, _, _)
type_and_var_int_loop(buf, res, shift_offset, typ, overflow_checks) ==
    IF buf = <<>> THEN VarIntResult("Panic", typ, res, buf)
    ELSE LET b == At(buf, 1)
             rest == Drop(buf, 1)
             first == shift_offset = 0
             sh == ShlChecked(BitsOf(b % 128), shift_offset, overflow_checks)
             typ2 == IF first THEN (b \div 16) % 8 ELSE typ
             res2 == IF first THEN BitsOf(b % 16) ELSE res \cup sh.bits
             shift2 == IF first THEN 4 ELSE shift_offset + 7
         IN IF ~first /\ ~sh.ok THEN VarIntResult("Panic", typ, res, rest)
            ELSE IF b <= 127 THEN VarIntResult("Ok", typ2, res2, rest)
            ELSE type_and_var_int_loop(rest, res2, shift2, typ2, overflow_checks)

\* read_type_and_var_int
read_type_and_var_int(buf, overflow_checks) ==
    type_and_var_int_loop(buf, {}, 0, 0, overflow_checks)

\* the loop of read_var_int: it ends on a byte below 127
RECURSIVE var_int_loop(_, _, _, _)
var_int_loop(buf, res, shift_offset, overflow_checks) ==
    IF buf = <<>> THEN VarIntResult("Panic", 0, res, buf)
    ELSE LET b == At(buf, 1)
             rest == Drop(buf, 1)
             sh == ShlChecked(BitsOf(b % 128), shift_offset, overflow_checks)
         IN IF ~sh.ok THEN VarIntResult("Panic", 0, res, rest)
            ELSE IF b < 127 THEN VarIntResult("Ok", 0, res \cup sh.bits, rest)
            ELSE var_int_loop(rest, res \cup sh.bits, shift_offset + 7, overflow_checks)

\* read_var_int
read_var_int(buf, overflow_checks) == var_int_loop(buf, {}, 0, overflow_checks)

(***************************************************************************)
(* The encodings the readers are given (the pack format: spec 4.3, 4.4).   *)
(***************************************************************************)
MaxBit(bits) == CHOOSE i \in bits : \A j \in bits : j <= i

\* the 7 bits of a u64 from position lo on, as a number
Chunk7(bits, lo) == NatOf({i \in 0..6 : lo + i \in bits})

\* plain varint: 7 bits per byte, least-significant chunk first, high bit
\* set on every byte but the last
EncodeVarInt(bits) ==
    LET n == IF bits = {} THEN 1 ELSE (MaxBit(bits) \div 7) + 1 IN
    Bytes([k \in 1..n |-> Chunk7(bits, 7 * (k - 1)) + (IF k < n THEN 128 ELSE 0)])

\* type+size varint: continuation bit, 3-bit type and low 4 size bits in the
\* first byte, then 7 size bits per byte, least-significant chunk first
EncodeTypeAndVarInt(typ, bits) ==
    LET n == IF bits = {} \/ MaxBit(bits) < 4 THEN 0 ELSE ((MaxBit(bits) - 4) \div 7) + 1 IN
    Bytes(<<(IF n > 0 THEN 128 ELSE 0) + typ * 16 + NatOf(bits \cap (0..3))>>
          \o [k \in 1..n |-> Chunk7(bits, 4 + 7 * (k - 1)) + (IF k < n THEN 128 ELSE 0)])

(***************************************************************************)
(* The readers driven on bounded inputs.                                   *)
(***************************************************************************)
\* u64 values with their highest bit at most at position top: powers of two,
\* all-ones values, and values with a zero chunk in the middle
U64Values(top) ==
    {{k} : k \in 0..top} \cup {0..(k - 1) : k \in 0..(top + 1)}
    \cup {{0, k} : k \in 8..top}

\* what follows the varint in the buffer
VarIntTails == {<<>>, Rep(NUL, 1), Bytes(<<255, 1>>)}

\* buffers that are no complete varint: empty, cut after a continuation
\* byte, and continuation bytes beyond the 64 bits of the result
RawVarInts ==
    {<<>>, Rep(128, 1), Bytes(<<255, 255>>), Cat(Rep(128, 10), Rep(1, 1)),
     Cat(Rep(255, 10), Rep(1, 1)), Cat(Rep(129, 11), Rep(3, 1))}

NoVarInt == VarIntResult("none", 0, {}, <<>>)

VarIntInit ==
    /\ vOp = "none"
    /\ vIn = [typ |-> 0, value |-> {}]
    /\ vEnc = <<>>
    /\ vBuf = <<>>
    /\ overflowChecks = FALSE
    /\ vOut = NoVarInt

\* encode (typ, size) and read it back with read_type_and_var_int
TypeVarIntRoundTrip(typ, size, tail, checks) ==
    /\ vOp = "none"
    /\ vOp' = "type_round_trip"
    /\ vIn' = [typ |-> typ, value |-> size]
    /\ vEnc' = EncodeTypeAndVarInt(typ, size)
    /\ vBuf' = Cat(EncodeTypeAndVarInt(typ, size), tail)
    /\ overflowChecks' = checks
    /\ vOut' = read_type_and_var_int(Cat(EncodeTypeAndVarInt(typ, size), tail), checks)
    /\ UNCHANGED <<storeVars, pktVars, packVars, extVars>>

\* encode v and read it back with read_var_int
VarIntRoundTrip(v, tail, checks) ==
    /\ vOp = "none"
    /\ vOp' = "round_trip"
    /\ vIn' = [typ |-> 0, value |-> v]
    /\ vEnc' = EncodeVarInt(v)
    /\ vBuf' = Cat(EncodeVarInt(v), tail)
    /\ overflowChecks' = checks
    /\ vOut' = read_var_int(Cat(EncodeVarInt(v), tail), checks)
    /\ UNCHANGED <<storeVars, pktVars, packVars, extVars>>

\* read_type_and_var_int on a buffer of the pack
TypeVarIntRead(buf, checks) ==
    /\ vOp = "none"
    /\ vOp' = "type_read"
    /\ vIn' = [typ |-> 0, value |-> {}]
    /\ vEnc' = <<>>
    /\ vBuf' = buf
    /\ overflowChecks' = checks
    /\ vOut' = read_type_and_var_int(buf, checks)
    /\ UNCHANGED <<storeVars, pktVars, packVars, extVars>>

\* read_var_int on a buffer of the pack
VarIntRead(buf, checks) ==
    /\ vOp = "none"
    /\ vOp' = "read"
    /\ vIn' = [typ |-> 0, value |-> {}]
    /\ vEnc' = <<>>
    /\ vBuf' = buf
    /\ overflowChecks' = checks
    /\ vOut' = read_var_int(buf, checks)
    /\ UNCHANGED <<storeVars, pktVars, packVars, extVars>>

\* one call per run
VarIntNext ==
    /\ vOp = "none"
    /\ \/ \E typ \in 0..7, size \in U64Values(35), tail \in VarIntTails, c \in BOOLEAN :
             TypeVarIntRoundTrip(typ, size, tail, c)
       \/ \E v \in U64Values(63), tail \in VarIntTails, c \in BOOLEAN :
             VarIntRoundTrip(v, tail, c)
       \/ \E buf \in RawVarInts, c \in BOOLEAN : TypeVarIntRead(buf, c)
       \/ \E buf \in RawVarInts, c \in BOOLEAN : VarIntRead(buf, c)

(***************************************************************************)
(* Claims about the varints, checked under SpecVarInt.                     *)
(***************************************************************************)
\* C7: for every type tag in 0..7 and size in 0..2^35, read_type_and_var_int
\* of the type+size encoding returns exactly (type, size) and consumes
\* exactly the encoded bytes.
C7_TypeVarIntRoundTrip ==
    vOp = "type_round_trip" =>
        /\ vOut.kind = "Ok"
        /\ vOut.typ = vIn.typ
        /\ vOut.value = vIn.value
        /\ Cat(vEnc, vOut.rest) = vBuf

\* type 7 with size 2^35 was read back from a 6-byte encoding followed by
\* more bytes
C7_Witness ==
    /\ vOp = "type_round_trip"
    /\ vIn = [typ |-> 7, value |-> {35}]
    /\ BLen(vEnc) = 6
    /\ vOut.kind = "Ok"
    /\ vOut.rest = Bytes(<<255, 1>>)

\* C8: for every value v, read_var_int of the plain varint encoding of v
\* returns exactly v, stopping at the first byte whose high bit is clear and
\* consuming exactly the encoded bytes.
C8_VarIntRoundTrip ==
    vOp = "round_trip" =>
        /\ vOut.kind = "Ok"
        /\ vOut.value = vIn.value
        /\ Cat(vEnc, vOut.rest) = vBuf

(***************************************************************************)
(* Delta instructions and PackFile::explode_into_repo (pack.rs).           *)
(***************************************************************************)
InstrResult(kind, offset, size, rest) ==
    [kind |-> kind, offset |-> offset, size |-> size, rest |-> rest]

\* the two loops of DeltaInstruction::parse over the bits 0..6 of a copy
\* instruction: a set bit takes the next byte of the stream (get_u8 panics
\* on an empty buffer), a clear bit contributes zero.  offset is a u32 (a
\* set of bit positions), size a number below 2^24.
RECURSIVE copy_fields(_, _, _, _, _)
copy_fields(instr, i, buf, offset, size) ==
    IF i = 7 THEN InstrResult("Copy", offset, size, buf)
    ELSE IF (instr \div 2^i) % 2 = 0 THEN copy_fields(instr, i + 1, buf, offset, size)
    ELSE IF buf = <<>> THEN InstrResult("Panic", offset, size, buf)
    ELSE IF i < 4
         THEN copy_fields(instr, i + 1, Drop(buf, 1),
                          offset \cup Shl(BitsOf(At(buf, 1)), i * 8), size)
         ELSE copy_fields(instr, i + 1, Drop(buf, 1),
                          offset, size + At(buf, 1) * 2^((i - 4) * 8))

\* DeltaInstruction::parse
DeltaInstruction_parse(bytes) ==
    IF bytes = <<>> THEN InstrResult("Panic", {}, 0, bytes)
    ELSE Bind(At(bytes, 1), LAMBDA instr :
         IF instr >= 128 THEN copy_fields(instr, 0, Drop(bytes, 1), {}, 0)
         ELSE IF instr % 128 = 0 THEN InstrResult("Panic", {}, 0, Drop(bytes, 1))
         ELSE InstrResult("Add", {}, instr % 128, Drop(bytes, 1)))

\* the `while bytes.has_remaining()` loop of explode_into_repo: the
\* reconstructed data, or a panic (a slice of the base out of its range,
\* copy_to_bytes beyond the end of the stream, a panic of parse)
RECURSIVE apply_instructions(_, _, _)
apply_instructions(bytes, base_data, reconstructed_data) ==
    IF bytes = <<>> THEN [ok |-> TRUE, data |-> reconstructed_data]
    ELSE Bind(DeltaInstruction_parse(bytes), LAMBDA instr :
         IF instr.kind = "Panic" THEN [ok |-> FALSE, data |-> reconstructed_data]
         ELSE IF instr.kind = "Copy"
         THEN IF \/ \E i \in instr.offset : i > 30
                 \/ NatOf(instr.offset) > BLen(base_data)
                 \/ instr.size > BLen(base_data) - NatOf(instr.offset)
              THEN [ok |-> FALSE, data |-> reconstructed_data]
              ELSE apply_instructions(
                       instr.rest, base_data,
                       Cat(reconstructed_data,
                           Take(Drop(base_data, NatOf(instr.offset)), instr.size)))
         ELSE IF instr.size > BLen(instr.rest)
              THEN [ok |-> FALSE, data |-> reconstructed_data]
              ELSE apply_instructions(Drop(instr.rest, instr.size), base_data,
                                      Cat(reconstructed_data, Take(instr.rest, instr.size))))

\* faulty variant: the target size is used as read
target_size_as_read(target_size) == target_size

\* explode_into_repo: `if target_size == 0 { 0x10000 } else { target_size }`
expected_target_size(target_size) ==
    IF target_size = {} THEN BitsOf(65536) ELSE target_size

DeltaOutcome(outcome, fs, oid) == [outcome |-> outcome, files |-> fs, oid |-> oid]

NoId == Sha1(<<>>)

\* faulty variant: a missing base empties the store
resolve_delta_rollback(fs, delta, overflow_checks) ==
    IF delta.object_type # "ObjRefDelta" THEN DeltaOutcome("skipped", fs, NoId)
    ELSE Bind(get_object(fs, delta.base), LAMBDA base_object :
    IF ~base_object.ok THEN DeltaOutcome("Err", <<>>, NoId)
    ELSE Bind(read_var_int(delta.data, overflow_checks), LAMBDA base_size :
    IF base_size.kind # "Ok" \/ base_size.value # BitsOf(BLen(base_object.content))
    THEN DeltaOutcome("Panic", fs, NoId)
    ELSE Bind(read_var_int(base_size.rest, overflow_checks), LAMBDA target_size :
    IF target_size.kind # "Ok" THEN DeltaOutcome("Panic", fs, NoId)
    ELSE Bind(apply_instructions(target_size.rest, base_object.content, <<>>), LAMBDA r :
    IF ~r.ok \/ expected_target_size(target_size.value) # BitsOf(BLen(r.data))
    THEN DeltaOutcome("Panic", fs, NoId)
    ELSE Bind(store_object(fs, [object_type |-> base_object.object_type,
                                content |-> r.data]), LAMBDA s :
         DeltaOutcome("stored", s.files, s.oid))))))

\* one turn of the `for delta in deltas` loop of explode_into_repo:
\*   "skipped"  the delta is no RefDelta (continue),
\*   "Err"      get_object of the base failed (the ? returns the error),
\*   "Panic"    a read past the end, a failed assert_eq!, a bad slice,
\*   "stored"   the reconstructed object was stored under oid.
resolve_delta(fs, delta, overflow_checks) ==
    IF delta.object_type # "ObjRefDelta" THEN DeltaOutcome("skipped", fs, NoId)
    ELSE Bind(get_object(fs, delta.base), LAMBDA base_object :
    IF ~base_object.ok THEN DeltaOutcome("Err", fs, NoId)
    ELSE Bind(read_var_int(delta.data, overflow_checks), LAMBDA base_size :
    IF base_size.kind # "Ok" \/ base_size.value # BitsOf(BLen(base_object.content))
    THEN DeltaOutcome("Panic", fs, NoId)
    ELSE Bind(read_var_int(base_size.rest, overflow_checks), LAMBDA target_size :
    IF target_size.kind # "Ok" THEN DeltaOutcome("Panic", fs, NoId)
    ELSE Bind(apply_instructions(target_size.rest, base_object.content, <<>>), LAMBDA r :
    IF ~r.ok \/ expected_target_size(target_size.value) # BitsOf(BLen(r.data))
    THEN DeltaOutcome("Panic", fs, NoId)
    ELSE Bind(store_object(fs, [object_type |-> base_object.object_type,
                                content |-> r.data]), LAMBDA s :
         DeltaOutcome("stored", s.files, s.oid))))))

(***************************************************************************)
(* Packs handed to explode_into_repo.  Each delta entry carries, beside    *)
(* the fields of PackObject, the plan it was encoded from (the code never  *)
(* reads it): the base object, the instructions and the declared sizes.    *)
(***************************************************************************)
\* longest instruction list of a delta built over a small base
MaxInstrs == 2

Copy(offset, size) == [op |-> "Copy", offset |-> offset, size |-> size, literal |-> <<>>]

Add(literal) == [op |-> "Add", offset |-> 0, size |-> BLen(literal), literal |-> literal]

\* a copy instruction (spec 4.4): the bytes of offset and size that are not
\* zero follow the instruction byte, each announced by its bit
EncodeCopy(offset, size) ==
    LET ob == [k \in 0..3 |-> (offset \div 2^(8 * k)) % 256]
        sb == [k \in 0..2 |-> (size \div 2^(8 * k)) % 256]
        obits == {k \in 0..3 : ob[k] # 0}
        sbits == {k \in 0..2 : sb[k] # 0}
        RECURSIVE sel(_, _, _)
        sel(f, top, k) ==
            IF k > top THEN <<>>
            ELSE (IF f[k] # 0 THEN <<f[k]>> ELSE <<>>) \o sel(f, top, k + 1)
    IN Bytes(<<128 + NatOf(obits) + 16 * NatOf(sbits)>> \o sel(ob, 3, 0) \o sel(sb, 2, 0))

\* an add instruction: the size, then the literal bytes
EncodeInstr(i) ==
    IF i.op = "Copy" THEN EncodeCopy(i.offset, i.size)
    ELSE Cat(Rep(i.size, 1), i.literal)

RECURSIVE EncodeInstrs(_)
EncodeInstrs(instrs) ==
    IF instrs = <<>> THEN <<>> ELSE Cat(EncodeInstr(Head(instrs)), EncodeInstrs(Tail(instrs)))

\* what the instructions stand for over base content B: the slices of B and
\* the literals, in order
RECURSIVE Expected(_, _)
Expected(B, instrs) ==
    IF instrs = <<>> THEN <<>>
    ELSE Cat(IF Head(instrs).op = "Copy"
             THEN Slice(B, Head(instrs).offset + 1, Head(instrs).offset + Head(instrs).size)
             ELSE Head(instrs).literal,
             Expected(B, Tail(instrs)))

InRange(B, instrs) ==
    \A k \in 1..Len(instrs) :
        instrs[k].op = "Copy" => instrs[k].offset + instrs[k].size <= BLen(B)

NoObject == [object_type |-> "none", content |-> <<>>]

DeltaPlan(base, instrs, base_size, target_size) ==
    [base |-> base, instrs |-> instrs, base_size |-> base_size, target_size |-> target_size]

NoPlan == DeltaPlan(NoObject, <<>>, {}, {})

\* struct PackObject, with the plan of a delta
PackObject(object_type, base, data, plan) ==
    [object_type |-> object_type, base |-> base, data |-> data, plan |-> plan]

FullObject(object) ==
    PackObject(CASE object.object_type = "Blob" -> "ObjBlob"
                 [] object.object_type = "Tree" -> "ObjTree"
                 [] object.object_type = "Commit" -> "ObjCommit",
               NoId, object.content, NoPlan)

RefDelta(plan) ==
    PackObject("ObjRefDelta", ObjectIdOf(plan.base),
               Cat(EncodeVarInt(plan.base_size),
                   Cat(EncodeVarInt(plan.target_size), EncodeInstrs(plan.instrs))),
               plan)

\* a delta with the sizes its base and its instructions give
PlanFor(base, instrs) ==
    DeltaPlan(base, instrs, BitsOf(BLen(base.content)),
              BitsOf(BLen(Expected(base.content, instrs))))

SmallBases ==
    {[object_type |-> "Blob", content |-> Bytes(<<97, 98>>)],
     [object_type |-> "Commit", content |-> Bytes(<<NUL, 98>>)]}

\* instructions over a 2-byte base; Copy(1, 2) is out of its range, Add(<<>>)
\* is an add of no bytes
SmallInstrs ==
    {Copy(0, 2), Copy(1, 1), Copy(2, 0), Copy(1, 2), Add(Rep(120, 1)), Add(Bytes(<<NUL, 120>>)),
     Add(<<>>)}

\* the plans over the small bases: declared sizes right, base size wrong,
\* target size wrong, target size declared as 0
SmallPlans ==
    UNION {
        LET p == PlanFor(base, instrs) IN
        {p,
         [p EXCEPT !.base_size = BitsOf(BLen(base.content) + 1)],
         [p EXCEPT !.target_size = BitsOf(BLen(Expected(base.content, instrs)) + 1)],
         [p EXCEPT !.target_size = {}]}
        : base \in SmallBases, instrs \in SeqsUpTo(SmallInstrs, MaxInstrs)}

Base127 == [object_type |-> "Commit", content |-> Rep(97, 127)]

Base64k == [object_type |-> "Tree", content |-> Rep(97, 65536)]

Base255 == [object_type |-> "Blob", content |-> Rep(97, 255)]

\* plans over larger bases: a base of 127 bytes, a target of 127 bytes,
\* targets of 65536 and 65535 bytes declared as 0, and a delta over a base
\* of 255 bytes that declares a base of 127 bytes, a target of 1 byte and
\* an add of the 3 bytes 0x90 0x03 0x80
LargePlans ==
    {PlanFor(Base127, <<Copy(0, 1)>>),
     PlanFor(Base127, <<Copy(126, 1), Add(Bytes(<<120, 121>>))>>),
     PlanFor([object_type |-> "Blob", content |-> Rep(97, 126)],
             <<Copy(0, 126), Add(Rep(120, 1))>>),
     PlanFor(Base64k, <<Copy(0, 65536)>>),
     [PlanFor(Base64k, <<Copy(0, 65536)>>) EXCEPT !.target_size = {}],
     [PlanFor(Base64k, <<Copy(1, 65535)>>) EXCEPT !.target_size = {}],
     [PlanFor(Base64k, <<Copy(256, 65280), Add(Rep(97, 127)), Add(Rep(97, 127)),
                         Copy(0, 2)>>) EXCEPT !.target_size = {}],
     DeltaPlan(Base255, <<Add(Bytes(<<144, 3, 128>>))>>, BitsOf(127), BitsOf(1))}

\* a delta over the object another delta of the pack reconstructs
ChainPlan(p, instrs) ==
    PlanFor([object_type |-> p.base.object_type, content |-> Expected(p.base.content, p.instrs)],
            instrs)

FirstOfChain == PlanFor([object_type |-> "Blob", content |-> Bytes(<<97, 98>>)],
                        <<Copy(1, 1), Add(Rep(120, 1))>>)

\* the packs: the base and a delta over it, in either order; a delta whose
\* base is not in the pack; tag and ofs-delta entries; chains of two deltas
Packs ==
    {<<FullObject(p.base), RefDelta(p)>> : p \in SmallPlans \cup LargePlans}
    \cup {<<RefDelta(p), FullObject(p.base)>> : p \in LargePlans}
    \cup {<<RefDelta(FirstOfChain)>>,
          <<>>,
          <<PackObject("ObjTag", NoId, Bytes(<<116>>), NoPlan), FullObject(FirstOfChain.base),
            PackObject("ObjOfsDelta", NoId, Bytes(<<2, 1, 1, 120>>), NoPlan),
            RefDelta(FirstOfChain)>>,
          <<FullObject(FirstOfChain.base), RefDelta(FirstOfChain),
            RefDelta(ChainPlan(FirstOfChain, <<Copy(0, 2)>>))>>,
          <<FullObject(FirstOfChain.base), RefDelta(ChainPlan(FirstOfChain, <<Copy(0, 2)>>)),
            RefDelta(FirstOfChain)>>}

ExplodeInit ==
    /\ pc = "idle"
    /\ entries = <<>>
    /\ deltas = <<>>
    /\ resolved = <<>>

\* explode_into_repo is entered with a parsed pack, on a repository that
\* clone has just initialised
ExplodeStart(pack, checks) ==
    /\ pc = "idle"
    /\ pc' = IF pack = <<>> THEN "deltas" ELSE "storing"
    /\ entries' = pack
    /\ overflowChecks' = checks
    /\ UNCHANGED <<files, stored, got, calls, deltas, resolved, pktVars, vOp, vIn, vEnc, vBuf, vOut,
                   extVars>>

\* faulty variant: a tag is stored like a blob
ExplodeEntry_store_tag ==
    /\ pc = "storing"
    /\ LET entry == Head(entries)
           delta == entry.object_type \in {"ObjOfsDelta", "ObjRefDelta"}
           obj == [object_type |-> CASE entry.object_type = "ObjCommit" -> "Commit"
                                     [] entry.object_type = "ObjTree" -> "Tree"
                                     [] OTHER -> "Blob",
                   content |-> entry.data]
       IN /\ IF delta
             THEN UNCHANGED <<files, stored>>
             ELSE \E s \in {store_object(files, obj)} :
                  /\ files' = s.files
                  /\ stored' = stored \cup {[obj |-> obj, oid |-> s.oid]}
          /\ deltas' = IF delta THEN Append(deltas, entry) ELSE deltas
    /\ entries' = Tail(entries)
    /\ pc' = IF Tail(entries) = <<>> THEN "deltas" ELSE "storing"
    /\ UNCHANGED <<got, calls, resolved, pktVars, varIntVars, extVars>>

\* one turn of `for entry in self.objects`: a commit, tree or blob is
\* stored, a tag is skipped, a delta is queued
ExplodeEntry ==
    /\ pc = "storing"
    /\ LET entry == Head(entries)
           delta == entry.object_type \in {"ObjOfsDelta", "ObjRefDelta"}
           obj == [object_type |-> CASE entry.object_type = "ObjCommit" -> "Commit"
                                     [] entry.object_type = "ObjTree" -> "Tree"
                                     [] OTHER -> "Blob",
                   content |-> entry.data]
       IN /\ IF entry.object_type = "ObjTag" \/ delta
             THEN UNCHANGED <<files, stored>>
             ELSE \E s \in {store_object(files, obj)} :
                  /\ files' = s.files
                  /\ stored' = stored \cup {[obj |-> obj, oid |-> s.oid]}
          /\ deltas' = IF delta THEN Append(deltas, entry) ELSE deltas
    /\ entries' = Tail(entries)
    /\ pc' = IF Tail(entries) = <<>> THEN "deltas" ELSE "storing"
    /\ UNCHANGED <<got, calls, resolved, pktVars, varIntVars, extVars>>

\* faulty variant: the deltas are taken from the end of the queue
ExplodeDelta_last_first ==
    /\ pc = "deltas"
    /\ deltas # <<>>
    /\ \E delta \in {deltas[Len(deltas)]} :
       \E r \in {resolve_delta(files, delta, overflowChecks)} :
          /\ files' = r.files
          /\ stored' = IF r.outcome = "stored"
                       THEN {[obj |-> [object_type |-> o.object_type, content |-> o.content],
                              oid |-> r.oid] : o \in {get_object(r.files, r.oid)}} \cup stored
                       ELSE stored
          /\ resolved' = Append(resolved, [delta |-> delta, outcome |-> r.outcome, oid |-> r.oid,
                                           base_found |-> get_object(files, delta.base).ok])
          /\ pc' = IF r.outcome \in {"Err", "Panic"} THEN r.outcome ELSE "deltas"
    /\ deltas' = SubSeq(deltas, 1, Len(deltas) - 1)
    /\ UNCHANGED <<got, calls, entries, pktVars, varIntVars, extVars>>

\* one turn of `for delta in deltas`
ExplodeDelta ==
    /\ pc = "deltas"
    /\ deltas # <<>>
    /\ \E delta \in {Head(deltas)} :
       \E r \in {resolve_delta(files, delta, overflowChecks)} :
          /\ files' = r.files
          /\ stored' = IF r.outcome = "stored"
                       THEN {[obj |-> [object_type |-> o.object_type, content |-> o.content],
                              oid |-> r.oid] : o \in {get_object(r.files, r.oid)}} \cup stored
                       ELSE stored
          /\ resolved' = Append(resolved, [delta |-> delta, outcome |-> r.outcome, oid |-> r.oid,
                                           base_found |-> get_object(files, delta.base).ok])
          /\ pc' = IF r.outcome \in {"Err", "Panic"} THEN r.outcome ELSE "deltas"
    /\ deltas' = Tail(deltas)
    /\ UNCHANGED <<got, calls, entries, pktVars, varIntVars, extVars>>

\* the loop over the deltas is over: Ok(())
ExplodeFinish ==
    /\ pc = "deltas"
    /\ deltas = <<>>
    /\ pc' = "Ok"
    /\ UNCHANGED <<storeVars, entries, deltas, resolved, pktVars, varIntVars, extVars>>

PackNext ==
    \/ /\ pc = "idle"
       /\ \E pack \in Packs, checks \in BOOLEAN : ExplodeStart(pack, checks)
    \/ ExplodeEntry
    \/ ExplodeDelta
    \/ ExplodeFinish

(***************************************************************************)
(* Claims about the delta resolver (SpecPack).                             *)
(***************************************************************************)
\* the object the resolver stored for the entry r of the history
StoredFor(r) == get_object(files, r.oid)

\* the delta of r is well formed: copies in range, declared sizes those of
\* the base and of the result (a target of 0 bytes has no declaration of
\* its own, 0 standing for 65536)
WellFormed(plan) ==
    /\ plan.base # NoObject
    /\ InRange(plan.base.content, plan.instrs)
    /\ plan.base_size = BitsOf(BLen(plan.base.content))
    /\ plan.target_size = BitsOf(BLen(Expected(plan.base.content, plan.instrs)))
    /\ plan.target_size # {}

Reconstructs(r) ==
    /\ r.outcome = "stored"
    /\ StoredFor(r).ok
    /\ StoredFor(r).object_type = r.delta.plan.base.object_type
    /\ StoredFor(r).content = Expected(r.delta.plan.base.content, r.delta.plan.instrs)
    /\ BitsOf(BLen(StoredFor(r).content)) = r.delta.plan.target_size

\* C9: a RefDelta whose base is stored and whose stream is a sequence of
\* in-range Copy and Add instructions with the right declared base and
\* target sizes is resolved to an object of the base's type whose content
\* is the concatenation of the slices and literals, of the declared length.
C9_DeltaReconstruction ==
    \A k \in 1..Len(resolved) :
        (/\ resolved[k].delta.object_type = "ObjRefDelta"
         /\ resolved[k].base_found
         /\ WellFormed(resolved[k].delta.plan))
        => Reconstructs(resolved[k])

\* no size field of the delta is written with a last byte 0x7f
NoSizeEndsIn127(plan) ==
    /\ At(EncodeVarInt(plan.base_size), BLen(EncodeVarInt(plan.base_size))) # 127
    /\ At(EncodeVarInt(plan.target_size), BLen(EncodeVarInt(plan.target_size))) # 127

\* C9 holds for the deltas whose size fields do not end in the byte 0x7f
\* that read_var_int does not take as the last one
C9_ExceptSizesEndingIn127 ==
    \A k \in 1..Len(resolved) :
        (/\ resolved[k].delta.object_type = "ObjRefDelta"
         /\ resolved[k].base_found
         /\ WellFormed(resolved[k].delta.plan)
         /\ NoSizeEndsIn127(resolved[k].delta.plan))
        => Reconstructs(resolved[k])

C9_ExceptWitness ==
    \E k \in 1..Len(resolved) :
        /\ resolved[k].base_found
        /\ WellFormed(resolved[k].delta.plan)
        /\ Len(resolved[k].delta.plan.instrs) = 2
        /\ resolved[k].delta.plan.base.object_type = "Commit"
        /\ Reconstructs(resolved[k])

\* the target-size field of the delta data decodes to exactly 0
TargetFieldIsZero(data, checks) ==
    LET base_size == read_var_int(data, checks) IN
    /\ base_size.kind = "Ok"
    /\ read_var_int(base_size.rest, checks).kind = "Ok"
    /\ read_var_int(base_size.rest, checks).value = {}

\* what the instruction stream after the two size fields reconstructs
ReconstructedLen(r, checks) ==
    LET base_size == read_var_int(r.delta.data, checks)
        target_size == read_var_int(base_size.rest, checks)
        out == apply_instructions(target_size.rest, r.delta.plan.base.content, <<>>)
    IN IF out.ok THEN BLen(out.data) ELSE -1

\* C10: when the target-size varint of a delta decodes to 0 the resolver
\* expects 65536 bytes: the delta is accepted (its object stored) exactly
\* when the reconstructed content has 65536 bytes, and panics otherwise.
C10_ZeroTargetIs65536 ==
    \A k \in 1..Len(resolved) :
        (/\ resolved[k].delta.object_type = "ObjRefDelta"
         /\ resolved[k].base_found
         /\ read_var_int(resolved[k].delta.data, overflowChecks).kind = "Ok"
         /\ read_var_int(resolved[k].delta.data, overflowChecks).value
                = BitsOf(BLen(resolved[k].delta.plan.base.content))
         /\ TargetFieldIsZero(resolved[k].delta.data, overflowChecks))
        => /\ resolved[k].outcome \in {"stored", "Panic"}
           /\ resolved[k].outcome = "stored"
                <=> ReconstructedLen(resolved[k], overflowChecks) = 65536
           /\ resolved[k].outcome = "stored"
                => /\ StoredFor(resolved[k]).ok
                   /\ BLen(StoredFor(resolved[k]).content) = 65536

\* a delta with a target-size field of 0 that reconstructs 65536 bytes out
\* of more than one instruction has been accepted
C10_Witness ==
    \E k \in 1..Len(resolved) :
        /\ resolved[k].base_found
        /\ TargetFieldIsZero(resolved[k].delta.data, overflowChecks)
        /\ resolved[k].outcome = "stored"
        /\ Len(resolved[k].delta.plan.instrs) = 4
        /\ BLen(StoredFor(resolved[k]).content) = 65536

(***************************************************************************)
(* Object ids inside byte strings.  SHA-1 is collision free and not        *)
(* invertible: the 20 raw bytes of the id of a known object are 20 times   *)
(* a byte of its own, which is no byte of any text (a "digest byte"), its  *)
(* 40 hex characters 40 times a character of its own.  An id that was      *)
(* read from 20 bytes or 40 hex digits that are no digest of a known       *)
(* object is the id of no object of the model.                             *)
(***************************************************************************)
IdTokenBase == 100000

HexTokenBase == 200000

\* the id with the raw bytes raw, of no known object
LiteralId(raw) == Sha1(<<<<-1, 1>>>> \o raw)

IsLiteral(oid) == oid.sha1 # <<>> /\ oid.sha1[1][1] = -1

\* the number of the id oid in the list ids
Tok(ids, oid) == CHOOSE i \in 1..Len(ids) : ids[i] = oid

\* ObjectId::as_bytes over the known ids `ids`
RawIdIn(ids, oid) ==
    IF IsLiteral(oid) THEN Tail(oid.sha1) ELSE Rep(IdTokenBase + Tok(ids, oid), 20)

\* hex::encode of a byte string of real bytes
RECURSIVE HexEncode(_)
HexEncode(s) ==
    IF s = <<>> THEN <<>>
    ELSE Cat(Bytes(<<HexDigit(At(s, 1) \div 16), HexDigit(At(s, 1) % 16)>>),
             HexEncode(Drop(s, 1)))

\* impl Display for ObjectId over the known ids `ids`
HexIdIn(ids, oid) ==
    IF IsLiteral(oid) THEN HexEncode(Tail(oid.sha1)) ELSE Rep(HexTokenBase + Tok(ids, oid), 40)

\* hex::decode of a byte string of ASCII hex digits (either case)
RECURSIVE HexDecode(_)
HexDecode(s) ==
    IF BLen(s) < 2 THEN <<>>
    ELSE Cat(Rep(HexCharVal(At(s, 1)) * 16 + HexCharVal(At(s, 2)), 1), HexDecode(Drop(s, 2)))

AllHex(s) == \A i \in 1..Len(s) : HexCharVal(s[i][1]) # -1

\* the objects whose ids occur in other objects or on the wire: blobs
BlobHi == [object_type |-> "Blob", content |-> Bytes(<<104, 105>>)]

BlobAb == [object_type |-> "Blob", content |-> Bytes(<<97, 98>>)]

Ids0 ==
    <<ObjectIdOf(BlobHi), ObjectIdOf(BlobAb),
      ObjectIdOf([object_type |-> "Commit", content |-> Bytes(<<NUL, 98>>)]),
      ObjectIdOf([object_type |-> "Commit", content |-> Rep(97, 127)]),
      ObjectIdOf([object_type |-> "Tree", content |-> Rep(97, 65536)]),
      ObjectIdOf([object_type |-> "Blob", content |-> Bytes(<<98, 120>>)]),
      ObjectIdOf([object_type |-> "Blob", content |-> Rep(97, 126)])>>

\* a tree entry as git writes it: "{mode} {name}\0" and the 20 raw bytes
TreeEntryBytes(ids, mode, name, oid) ==
    Cat(mode, Cat(Rep(SP, 1), Cat(name, Cat(Rep(NUL, 1), RawIdIn(ids, oid)))))

\* "100644", "100755", "40000"
ModeFile == Bytes(<<49, 48, 48, 54, 52, 52>>)

ModeExec == Bytes(<<49, 48, 48, 55, 53, 53>>)

ModeDir == Bytes(<<52, 48, 48, 48, 48>>)

\* trees over the blobs, the ids in them numbered as in the list ids (a
\* list that starts with Ids0): one file "f"; a file "a" and an executable "x"
TreeFOver(ids) ==
    [object_type |-> "Tree",
     content |-> TreeEntryBytes(ids, ModeFile, Rep(102, 1), ObjectIdOf(BlobHi))]

TreeF == TreeFOver(Ids0)

TreeAXOver(ids) ==
    [object_type |-> "Tree",
     content |-> Cat(TreeEntryBytes(ids, ModeFile, Rep(97, 1), ObjectIdOf(BlobAb)),
                     TreeEntryBytes(ids, ModeExec, Rep(120, 1), ObjectIdOf(BlobHi)))]

TreeAX == TreeAXOver(Ids0)

Ids1 == Bind(Ids0, LAMBDA ids : ids \o <<ObjectIdOf(TreeFOver(ids)), ObjectIdOf(TreeAXOver(ids))>>)

\* a tree with a file "f" and a directory "d" holding TreeAX
TreeDFOver(ids) ==
    [object_type |-> "Tree",
     content |-> Cat(TreeEntryBytes(ids, ModeDir, Rep(100, 1), ObjectIdOf(TreeAXOver(ids))),
                     TreeEntryBytes(ids, ModeFile, Rep(102, 1), ObjectIdOf(BlobHi)))]

TreeDF == TreeDFOver(Ids1)

Ids2 == Bind(Ids1, LAMBDA ids : ids \o <<ObjectIdOf(TreeDFOver(ids))>>)

\* "tree {id}\n" and the rest of a commit
CommitOf(ids, oid) ==
    [object_type |-> "Commit",
     content |-> Cat(Bytes(<<116, 114, 101, 101, 32>>),
                     Cat(HexIdIn(ids, oid), Bytes(<<10, 10, 109, 10>>)))]

CommitFOver(ids) == CommitOf(ids, ObjectIdOf(TreeFOver(ids)))

CommitF == CommitFOver(Ids2)

CommitDFOver(ids) == CommitOf(ids, ObjectIdOf(TreeDFOver(ids)))

CommitDF == CommitDFOver(Ids2)

\* a commit whose tree is not a tree but a blob, and one whose tree is unknown
CommitOfBlobOver(ids) == CommitOf(ids, ObjectIdOf(BlobHi))

CommitOfBlob == CommitOfBlobOver(Ids2)

CommitOfNothingOver(ids) == CommitOf(ids, LiteralId(Rep(187, 20)))

CommitOfNothing == CommitOfNothingOver(Ids2)

\* the tree of an empty directory
TreeEmpty == [object_type |-> "Tree", content |-> <<>>]

KnownIds ==
    Bind(Ids2, LAMBDA ids :
         ids \o <<ObjectIdOf(CommitFOver(ids)), ObjectIdOf(CommitDFOver(ids)),
                  ObjectIdOf(CommitOfBlobOver(ids)), ObjectIdOf(CommitOfNothingOver(ids)),
                  ObjectIdOf(TreeEmpty)>>)

\* ObjectId::as_bytes
RawId(oid) == RawIdIn(KnownIds, oid)

\* impl Display for ObjectId: hex::encode of the 20 bytes
HexId(oid) == HexIdIn(KnownIds, oid)

\* ObjectId::from_bytes of 20 bytes
IdFromRaw(raw) ==
    Bind(KnownIds, LAMBDA ids :
         IF Len(raw) = 1 /\ raw[1][1] - IdTokenBase \in 1..Len(ids)
         THEN ids[raw[1][1] - IdTokenBase]
         ELSE LiteralId(raw))

\* impl FromStr for ObjectId: 40 bytes that hex::decode_to_slice accepts
ObjectId_from_str(s) ==
    IF BLen(s) # 40 THEN [ok |-> FALSE, oid |-> NoId]
    ELSE Bind(KnownIds, LAMBDA ids :
         IF Len(s) = 1 /\ s[1][1] - HexTokenBase \in 1..Len(ids)
         THEN [ok |-> TRUE, oid |-> ids[s[1][1] - HexTokenBase]]
         ELSE IF AllHex(s) THEN [ok |-> TRUE, oid |-> LiteralId(HexDecode(s))]
         ELSE [ok |-> FALSE, oid |-> NoId])

(***************************************************************************)
(* PackHeader::parse, PackObject::parse and PackFile::parse (pack.rs).     *)
(***************************************************************************)
\* b"PACK"
PackSig == Bytes(<<80, 65, 67, 75>>)

\* Buf::get_u32: the big-endian value of 4 bytes, as a set of bit positions
U32FromBe(b) ==
    Shl(BitsOf(At(b, 1)), 24) \cup Shl(BitsOf(At(b, 2)), 16)
        \cup Shl(BitsOf(At(b, 3)), 8) \cup BitsOf(At(b, 4))

HeaderResult(kind, version, num_objects, rest) ==
    [kind |-> kind, version |-> version, num_objects |-> num_objects, rest |-> rest]

\* faulty variant: any version is taken
PackHeader_parse_any_version(bytes) ==
    IF BLen(bytes) < 4 THEN HeaderResult("Panic", {}, {}, bytes)
    ELSE IF Take(bytes, 4) # PackSig THEN HeaderResult("Err", {}, {}, Drop(bytes, 4))
    ELSE IF BLen(bytes) < 12 THEN HeaderResult("Panic", {}, {}, Drop(bytes, 4))
    ELSE HeaderResult("Ok", U32FromBe(Slice(bytes, 5, 8)), U32FromBe(Slice(bytes, 9, 12)),
                      Drop(bytes, 12))

\* PackHeader::parse: copy_to_slice and get_u32 panic when the buffer is
\* shorter than what they take
PackHeader_parse(bytes) ==
    IF BLen(bytes) < 4 THEN HeaderResult("Panic", {}, {}, bytes)
    ELSE IF Take(bytes, 4) # PackSig THEN HeaderResult("Err", {}, {}, Drop(bytes, 4))
    ELSE IF BLen(bytes) < 8 THEN HeaderResult("Panic", {}, {}, Drop(bytes, 4))
    ELSE Bind(U32FromBe(Slice(bytes, 5, 8)), LAMBDA version :
         IF version # BitsOf(2) /\ version # BitsOf(3)
         THEN HeaderResult("Err", version, {}, Drop(bytes, 8))
         ELSE IF BLen(bytes) < 12 THEN HeaderResult("Panic", version, {}, Drop(bytes, 8))
         ELSE HeaderResult("Ok", version, U32FromBe(Slice(bytes, 9, 12)), Drop(bytes, 12)))

\* ZlibDecoder::new(bytes.reader()).read_to_end: the data of the stream at
\* the head of the buffer and what follows the stream.  A stream that does
\* not start as one is an error; a stream cut short by the end of the
\* buffer gives what was there, without an error.
Inflate(bytes) ==
    IF bytes = <<>> THEN [ok |-> TRUE, data |-> <<>>, rest |-> <<>>]
    ELSE IF At(bytes, 1) # ZLIB_MAGIC THEN [ok |-> FALSE, data |-> <<>>, rest |-> bytes]
    ELSE IF BLen(bytes) < 2 THEN [ok |-> TRUE, data |-> <<>>, rest |-> <<>>]
    ELSE [ok |-> TRUE,
          data |-> Take(Drop(bytes, 2), At(bytes, 2)),
          rest |-> Drop(bytes, 2 + At(bytes, 2))]

ObjectResult(kind, object, rest) == [kind |-> kind, object |-> object, rest |-> rest]

NoPackObject == PackObject("none", NoId, <<>>, NoPlan)

\* PackObject::parse (the offset of an ObjOfsDelta is read and not kept)
PackObject_parse(bytes, overflow_checks) ==
    Bind(read_type_and_var_int(bytes, overflow_checks), LAMBDA h :
    IF h.kind # "Ok" THEN ObjectResult("Panic", NoPackObject, bytes)
    ELSE Bind(read_var_int(h.rest, overflow_checks), LAMBDA ofs :
         Bind(CASE h.typ = 6 -> ofs.rest
                [] h.typ = 7 -> Drop(h.rest, 20)
                [] OTHER -> h.rest, LAMBDA after :
         Bind(Inflate(after), LAMBDA z :
         LET object_type == CASE h.typ = 1 -> "ObjCommit"
                              [] h.typ = 2 -> "ObjTree"
                              [] h.typ = 3 -> "ObjBlob"
                              [] h.typ = 4 -> "ObjTag"
                              [] h.typ = 6 -> "ObjOfsDelta"
                              [] OTHER -> "ObjRefDelta"
         IN IF h.typ \in {0, 5} THEN ObjectResult("Err", NoPackObject, h.rest)
            ELSE IF h.typ = 6 /\ ofs.kind # "Ok" THEN ObjectResult("Panic", NoPackObject, h.rest)
            ELSE IF h.typ = 7 /\ BLen(h.rest) < 20
                 THEN ObjectResult("Panic", NoPackObject, h.rest)
            ELSE IF ~z.ok THEN ObjectResult("Err", NoPackObject, after)
            ELSE ObjectResult("Ok",
                              PackObject(object_type,
                                         IF h.typ = 7 THEN IdFromRaw(Take(h.rest, 20)) ELSE NoId,
                                         z.data, NoPlan),
                              z.rest)))))

ParseResult(kind, objects, rest) == [kind |-> kind, objects |-> objects, rest |-> rest]

\* n - 1 for a number n > 0 given by the positions of its one bits
Decrement(bits) ==
    LET k == CHOOSE i \in bits : \A j \in bits : i <= j
    IN (bits \ {k}) \cup 0..(k - 1)

\* the loop `for _ in 0..num_objs` of PackFile::parse
RECURSIVE parse_objects(_, _, _, _)
parse_objects(num_objs, bytes, objects, overflow_checks) ==
    IF num_objs = {} THEN ParseResult("Ok", objects, bytes)
    ELSE Bind(PackObject_parse(bytes, overflow_checks), LAMBDA obj :
         IF obj.kind # "Ok" THEN ParseResult(obj.kind, <<>>, obj.rest)
         ELSE parse_objects(Decrement(num_objs), obj.rest, Append(objects, obj.object),
                            overflow_checks))

\* PackFile::parse
PackFile_parse(bytes, overflow_checks) ==
    Bind(PackHeader_parse(bytes), LAMBDA header :
    IF header.kind # "Ok" THEN ParseResult(header.kind, <<>>, header.rest)
    ELSE parse_objects(header.num_objects, header.rest, <<>>, overflow_checks))

(***************************************************************************)
(* Packs as bytes (spec 4.3): header, then for each entry the type + size  *)
(* varint, the base of a delta, and the deflated data.                     *)
(***************************************************************************)
\* the 4 big-endian bytes of n
U32Be(n) == Bytes(<<(n \div 2^24) % 256, (n \div 2^16) % 256, (n \div 2^8) % 256, n % 256>>)

PackTypeCode(object_type) ==
    CASE object_type = "ObjCommit" -> 1
      [] object_type = "ObjTree" -> 2
      [] object_type = "ObjBlob" -> 3
      [] object_type = "ObjTag" -> 4
      [] object_type = "ObjOfsDelta" -> 6
      [] object_type = "ObjRefDelta" -> 7

\* an entry; the offset of an ObjOfsDelta is written as 1
EncodePackObject(entry) ==
    Cat(EncodeTypeAndVarInt(PackTypeCode(entry.object_type), BitsOf(BLen(entry.data))),
        Cat(CASE entry.object_type = "ObjRefDelta" -> RawId(entry.base)
              [] entry.object_type = "ObjOfsDelta" -> EncodeVarInt({0})
              [] OTHER -> <<>>,
            ZlibEncode(entry.data)))

RECURSIVE EncodePackObjects(_)
EncodePackObjects(objects) ==
    IF objects = <<>> THEN <<>>
    ELSE Cat(EncodePackObject(Head(objects)), EncodePackObjects(Tail(objects)))

EncodePackAs(sig, version, count, objects) ==
    Cat(sig, Cat(U32Be(version), Cat(U32Be(count), EncodePackObjects(objects))))

EncodePack(objects) == EncodePackAs(PackSig, 2, Len(objects), objects)

\* the entries as PackFile::parse returns them
RECURSIVE Parsed(_)
Parsed(objects) ==
    IF objects = <<>> THEN <<>>
    ELSE <<[Head(objects) EXCEPT !.plan = NoPlan]>> \o Parsed(Tail(objects))

\* packs of a commit, its tree and its blobs, and packs with deltas
WirePacks ==
    {<<FullObject(CommitF), FullObject(TreeF), FullObject(BlobHi)>>,
     <<FullObject(BlobAb), RefDelta(FirstOfChain)>>,
     <<PackObject("ObjTag", NoId, Bytes(<<116>>), NoPlan), FullObject(BlobAb),
       PackObject("ObjOfsDelta", NoId, Bytes(<<2, 1, 1, 120>>), NoPlan)>>,
     <<FullObject(BlobHi)>>,
     <<>>}

\* signatures and versions of pack headers
PackSigs == {PackSig, Bytes(<<80, 65, 67, 74>>), Bytes(<<112, 97, 99, 107>>), Rep(NUL, 4)}

PackVersions == {0, 1, 2, 3, 4, 258, 2 * 2^24}

\* buffers handed to PackFile::parse: packs under every header, with the
\* right and with a wrong count, and what is left of them when cut short
RawPacks ==
    {EncodePackAs(sig, version, count, objects) :
        sig \in PackSigs, version \in PackVersions, count \in 0..3, objects \in WirePacks}

CutPacks ==
    UNION {{Take(pack, n) : n \in 0..(BLen(pack) - 1)} :
           pack \in {EncodePack(objects) : objects \in WirePacks}}

NoCall == [kind |-> "none"]

FnInit ==
    /\ fnOp = "none"
    /\ fnIn = <<>>
    /\ fnPlan = <<>>
    /\ fnOut = NoCall

\* PackFile::parse on a buffer
ParsePack(bytes, checks) ==
    /\ fnOp' = "PackFile::parse"
    /\ fnIn' = bytes
    /\ fnPlan' = <<>>
    /\ overflowChecks' = checks
    /\ fnOut' = PackFile_parse(bytes, checks)
    /\ UNCHANGED <<storeVars, pktVars, vOp, vIn, vEnc, vBuf, vOut, packVars, cloneVars>>

ParseNext ==
    /\ fnOp = "none"
    /\ \/ \E bytes \in RawPacks, checks \in BOOLEAN : ParsePack(bytes, checks)
       \/ \E bytes \in CutPacks, checks \in BOOLEAN : ParsePack(bytes, checks)

(***************************************************************************)
(* Claims about pack parsing (SpecParse).                                  *)
(***************************************************************************)
\* C11: PackHeader::parse fails for every input whose first 4 bytes are not
\* "PACK", and for every input with that signature whose version (the next
\* 4 bytes) is neither 2 nor 3; PackFile::parse then returns the error and
\* no objects.
C11_BadHeaderIsError ==
    fnOp = "PackFile::parse" =>
        ((\/ BLen(fnIn) >= 4 /\ Take(fnIn, 4) # PackSig
          \/ /\ BLen(fnIn) >= 8
             /\ Take(fnIn, 4) = PackSig
             /\ Slice(fnIn, 5, 8) \notin {U32Be(2), U32Be(3)})
         => /\ PackHeader_parse(fnIn).kind = "Err"
            /\ fnOut.kind = "Err"
            /\ fnOut.objects = <<>>)

\* a pack of three objects under a header of version 4 was refused
C11_Witness ==
    /\ fnOp = "PackFile::parse"
    /\ fnIn = EncodePackAs(PackSig, 4, 3,
                           <<FullObject(CommitF), FullObject(TreeF), FullObject(BlobHi)>>)
    /\ fnOut.kind = "Err"
    /\ fnOut.objects = <<>>

(***************************************************************************)
(* GitClient::discover_refs (client.rs).                                   *)
(***************************************************************************)
\* b"# service=git-upload-pack"
ServiceComment == Bytes(<<35, 32, 115, 101, 114, 118, 105, 99, 101, 61, 103, 105, 116, 45, 117, 112, 108, 111, 97, 100, 45, 112, 97, 99, 107>>)

\* the bytes str::trim takes off both ends: ASCII white space
WhiteSpace == {9, 10, 11, 12, 13, 32}

RECURSIVE TrimStart(_)
TrimStart(s) == IF s # <<>> /\ At(s, 1) \in WhiteSpace THEN TrimStart(Drop(s, 1)) ELSE s

RECURSIVE TrimEnd(_)
TrimEnd(s) ==
    IF s # <<>> /\ At(s, BLen(s)) \in WhiteSpace THEN TrimEnd(Take(s, BLen(s) - 1)) ELSE s

\* faulty variant of str::trim: nothing is taken off
NoTrim(s) == s

\* str::trim
Trim(s) == TrimEnd(TrimStart(s))

\* slice::split(|b| *b == sep) followed by trim, collected into a set
RECURSIVE SplitTrimSet(_, _)
SplitTrimSet(s, sep) ==
    Bind(IndexOf(s, sep), LAMBDA i :
         IF i = 0 THEN {Trim(s)}
         ELSE {Trim(Take(s, i - 1))} \cup SplitTrimSet(Drop(s, i), sep))

\* struct Ref
Ref(oid, name) == [oid |-> oid, name |-> name]

RefsResult(kind, capabilities, refs) ==
    [kind |-> kind, capabilities |-> capabilities, refs |-> refs]

\* the capabilities of a line: what follows its first NUL byte
CapabilitiesOf(ref_name) == SplitTrimSet(Drop(ref_name, IndexOf(ref_name, NUL)), SP)

\* the loop of discover_refs over the advertised lines: pkt.slice(0..40)
\* and pkt.slice(41..) panic on a line shorter than 41 bytes; every line
\* with a NUL byte sets the capabilities
RECURSIVE advertised_loop(_, _, _)
advertised_loop(res, capabilities_set, advertised) ==
    Bind(read_line(res), LAMBDA line :
    IF line.kind \in {"Err", "Panic"} THEN RefsResult(line.kind, {}, <<>>)
    ELSE IF line.kind = "Flush" THEN RefsResult("Ok", capabilities_set, advertised)
    ELSE IF BLen(line.data) < 41 THEN RefsResult("Panic", {}, <<>>)
    ELSE Bind(Take(line.data, 40), LAMBDA sha :
         Bind(Drop(line.data, 41), LAMBDA ref_name :
         Bind(IndexOf(ref_name, NUL), LAMBDA idx :
         Bind(ObjectId_from_str(sha), LAMBDA oid :
         IF ~oid.ok THEN RefsResult("Err", {}, <<>>)
         ELSE advertised_loop(
                  line.rest,
                  IF idx # 0 THEN CapabilitiesOf(ref_name) ELSE capabilities_set,
                  Append(advertised,
                         Ref(oid.oid, Trim(IF idx # 0 THEN Take(ref_name, idx - 1)
                                           ELSE ref_name)))))))))

\* faulty variant: the packet after the service comment is not looked at
discover_refs_any_second(res) ==
    LET first == read_line(res) IN
    IF first.kind \in {"Err", "Panic"} THEN RefsResult(first.kind, {}, <<>>)
    ELSE IF first.kind # "Data" \/ ~StartsWith(first.data, ServiceComment)
    THEN RefsResult("Err", {}, <<>>)
    ELSE LET second == read_line(first.rest) IN
         IF second.kind \in {"Err", "Panic"} THEN RefsResult(second.kind, {}, <<>>)
         ELSE advertised_loop(second.rest, {}, <<>>)

\* GitClient::discover_refs on the body of the response
discover_refs(res) ==
    Bind(read_line(res), LAMBDA first :
    IF first.kind \in {"Err", "Panic"} THEN RefsResult(first.kind, {}, <<>>)
    ELSE IF first.kind # "Data" \/ ~StartsWith(first.data, ServiceComment)
    THEN RefsResult("Err", {}, <<>>)
    ELSE Bind(read_line(first.rest), LAMBDA second :
         IF second.kind \in {"Err", "Panic"} THEN RefsResult(second.kind, {}, <<>>)
         ELSE IF second.kind # "Flush" THEN RefsResult("Err", {}, <<>>)
         ELSE advertised_loop(second.rest, {}, <<>>)))

(***************************************************************************)
(* Ref-discovery responses (spec 6): the service comment, a flush, the     *)
(* lines "{40-hex-id} {name}\n", the first with "\0{capabilities}" before  *)
(* the line feed, and a flush.                                             *)
(***************************************************************************)
\* longest list of advertised lines
MaxRefs == 2

LF == 10

NameHEAD == Bytes(<<72, 69, 65, 68>>)

NameMain == Bytes(<<114, 101, 102, 115, 47, 104, 101, 97, 100, 115, 47, 109, 97, 105, 110>>)

NameDev == Bytes(<<114, 101, 102, 115, 47, 104, 101, 97, 100, 115, 47, 100, 101, 118>>)

NameTag == Bytes(<<114, 101, 102, 115, 47, 116, 97, 103, 115, 47, 118, 49>>)

NamePeeled == Bytes(<<114, 101, 102, 115, 47, 116, 97, 103, 115, 47, 118, 49, 94, 123, 125>>)

\* the id written as 40 times the hex digit 'a'
IdA == LiteralId(Rep(170, 20))

CapsA == Bytes(<<109, 117, 108, 116, 105, 95, 97, 99, 107, 32, 115, 105, 100, 101, 45, 98, 97, 110, 100, 45, 54, 52, 107>>)

CapsB == Bytes(<<111, 102, 115, 45, 100, 101, 108, 116, 97>>)

\* an advertised line: caps is <<>> or the capability list of the line
RefLine(oid, name, caps) ==
    Cat(HexId(oid),
        Cat(Rep(SP, 1),
            Cat(name, Cat(IF caps = <<>> THEN <<>> ELSE Cat(Rep(NUL, 1), caps), Rep(LF, 1)))))

\* what a line advertises
AdLine(oid, name, caps) == [oid |-> oid, name |-> name, caps |-> caps]

AdLines ==
    {AdLine(oid, name, caps) :
        oid \in {IdA, ObjectIdOf(CommitF)},
        name \in {NameHEAD, NameMain, NamePeeled},
        caps \in {<<>>, CapsA, CapsB}}

RECURSIVE PktLines(_)
PktLines(payloads) ==
    IF payloads = <<>> THEN <<>>
    ELSE Cat(as_bytes(PktData(Head(payloads))), PktLines(Tail(payloads)))

RefLinesOf(ads) == [k \in 1..Len(ads) |-> RefLine(ads[k].oid, ads[k].name, ads[k].caps)]

\* a response: first and second are the two packets of the preamble, ads
\* the advertised lines, last what follows them
RefResponse(first, second, ads, last) ==
    Cat(as_bytes(first), Cat(second, Cat(PktLines(RefLinesOf(ads)), last)))

ServicePkt == PktData(Cat(ServiceComment, Rep(LF, 1)))

\* the advertised lines of the responses
AdLists == SeqsUpTo(AdLines, MaxRefs)

FewAdLists == SeqsUpTo({AdLine(IdA, NameHEAD, CapsA), AdLine(IdA, NameMain, <<>>)}, MaxRefs)

\* well-formed responses
GoodResponse(ads) == RefResponse(ServicePkt, FlushMarker, ads, FlushMarker)

\* another preamble: a flush or another comment first; a data packet, a
\* part of a packet or nothing after the comment
FirstPackets == {ServicePkt, PktFlush, PktData(Bytes(<<35, 32, 115, 101, 114, 118, 105, 99, 101, 61, 103, 105, 116, 45, 114, 101, 99, 101, 105, 118, 101, 45, 112, 97, 99, 107, 10>>))}

SecondPackets == {FlushMarker, as_bytes(PktData(Rep(LF, 1))), <<>>, Rep(48, 3)}

\* after the advertised lines: nothing, or a line that is no advertisement
LastLines ==
    {<<>>,
     as_bytes(PktData(Rep(97, 40))),
     as_bytes(PktData(Cat(Rep(103, 40), Cat(Rep(SP, 1), NameMain)))),
     as_bytes(PktData(<<>>))}

RefsPlan(good, ads) == [good |-> good, ads |-> ads]

\* discover_refs on the body of a response
DiscoverRefs(res, plan) ==
    /\ fnOp' = "discover_refs"
    /\ fnIn' = res
    /\ fnPlan' = plan
    /\ fnOut' = discover_refs(res)
    /\ UNCHANGED <<storeVars, pktVars, varIntVars, packVars, cloneVars>>

RefsNext ==
    /\ fnOp = "none"
    /\ \/ \E ads \in AdLists : DiscoverRefs(GoodResponse(ads), RefsPlan(TRUE, ads))
       \/ \E first \in FirstPackets, second \in SecondPackets, ads \in FewAdLists :
            DiscoverRefs(RefResponse(first, second, ads, FlushMarker),
                         RefsPlan(first = ServicePkt /\ second = FlushMarker, ads))
       \/ \E ads \in FewAdLists, last \in LastLines :
            DiscoverRefs(RefResponse(ServicePkt, FlushMarker, ads, last), RefsPlan(FALSE, ads))

(***************************************************************************)
(* Claims about discover_refs (SpecRefs).                                  *)
(***************************************************************************)
\* C12: discover_refs fails, with no refs returned, when the first packet
\* of the response is a flush or a data packet that does not begin with the
\* service comment (an error), and when the packet after the comment is not
\* a flush (an error when it is a data packet).
C12_BadPreambleFails ==
    fnOp = "discover_refs" =>
        LET first == read_line(fnIn)
            second == read_line(first.rest)
        IN /\ (\/ first.kind = "Flush"
               \/ first.kind = "Data" /\ ~StartsWith(first.data, ServiceComment))
              => fnOut.kind = "Err" /\ fnOut.refs = <<>>
           /\ (first.kind = "Data" /\ StartsWith(first.data, ServiceComment))
              => /\ second.kind # "Flush" => fnOut.kind # "Ok" /\ fnOut.refs = <<>>
                 /\ second.kind = "Data" => fnOut.kind = "Err"

\* a response with a data packet after the service comment, followed by two
\* advertised lines, was refused
C12_Witness ==
    /\ fnOp = "discover_refs"
    /\ read_line(read_line(fnIn).rest).kind = "Data"
    /\ StartsWith(read_line(fnIn).data, ServiceComment)
    /\ Len(fnPlan.ads) = 2
    /\ fnOut.kind = "Err"
    /\ fnOut.refs = <<>>

\* C15: for a well-formed response discover_refs returns one Ref for each
\* advertised line, in the order of the lines, with the id and the name of
\* its line.
C15_RefsInOrder ==
    (fnOp = "discover_refs" /\ fnPlan.good) =>
        /\ fnOut.kind = "Ok"
        /\ Len(fnOut.refs) = Len(fnPlan.ads)
        /\ \A k \in 1..Len(fnPlan.ads) :
              fnOut.refs[k] = Ref(fnPlan.ads[k].oid, fnPlan.ads[k].name)

\* two lines with different ids and names were returned in their order
C15_Witness ==
    /\ fnOp = "discover_refs"
    /\ fnPlan.good
    /\ Len(fnPlan.ads) = 2
    /\ fnPlan.ads[1].oid # fnPlan.ads[2].oid
    /\ fnPlan.ads[1].name = NameHEAD
    /\ fnPlan.ads[2].name = NamePeeled
    /\ fnOut.refs = <<Ref(fnPlan.ads[1].oid, NameHEAD), Ref(fnPlan.ads[2].oid, NamePeeled)>>

\* the capability list of an advertised line, as a set
CapsSet(caps) == IF caps = <<>> THEN {} ELSE SplitTrimSet(caps, SP)

\* C16: the capability set returned is the list after the NUL byte of the
\* first advertised line, whatever later lines carry after a NUL byte.
C16_CapabilitiesOfFirstLine ==
    (fnOp = "discover_refs" /\ fnPlan.good /\ fnPlan.ads # <<>>) =>
        /\ fnOut.kind = "Ok"
        /\ fnOut.capabilities = CapsSet(fnPlan.ads[1].caps)

(***************************************************************************)
(* The pack negotiation (client.rs): request_pack reads the side-band      *)
(* response of git-upload-pack.                                            *)
(***************************************************************************)
\* b"NAK"
Nak == Bytes(<<78, 65, 75>>)

\* what request_pack did: Ok(pack_content), an error value or a panic, and
\* the bytes of the response it did not read
PackResponse(kind, data, rest) == [kind |-> kind, data |-> data, rest |-> rest]

\* faulty variant: the channel byte stays in the pack content
RECURSIVE request_pack_keep_channel(_, _)
request_pack_keep_channel(bytes, pack_content) ==
    Bind(read_line(bytes), LAMBDA pkt :
    IF pkt.kind = "Panic" THEN PackResponse("Panic", <<>>, pkt.rest)
    ELSE IF pkt.kind = "Err" THEN PackResponse("Err", <<>>, pkt.rest)
    ELSE IF pkt.kind = "Flush" THEN PackResponse("Ok", pack_content, pkt.rest)
    ELSE IF StartsWith(pkt.data, Nak) THEN request_pack_keep_channel(pkt.rest, pack_content)
    ELSE IF pkt.data = <<>> THEN PackResponse("Panic", <<>>, pkt.rest)
    ELSE Bind(At(pkt.data, 1), LAMBDA first :
         IF first = 1 THEN request_pack_keep_channel(pkt.rest, Cat(pack_content, pkt.data))
         ELSE IF first = 2 THEN request_pack_keep_channel(pkt.rest, pack_content)
         ELSE PackResponse("Err", <<>>, pkt.rest)))

\* faulty variant: lines of an unknown channel are skipped
RECURSIVE request_pack_skip_unknown(_, _)
request_pack_skip_unknown(bytes, pack_content) ==
    Bind(read_line(bytes), LAMBDA pkt :
    IF pkt.kind = "Panic" THEN PackResponse("Panic", <<>>, pkt.rest)
    ELSE IF pkt.kind = "Err" THEN PackResponse("Err", <<>>, pkt.rest)
    ELSE IF pkt.kind = "Flush" THEN PackResponse("Ok", pack_content, pkt.rest)
    ELSE IF StartsWith(pkt.data, Nak) THEN request_pack_skip_unknown(pkt.rest, pack_content)
    ELSE IF pkt.data = <<>> THEN PackResponse("Panic", <<>>, pkt.rest)
    ELSE Bind(At(pkt.data, 1), LAMBDA first :
         IF first = 1
         THEN request_pack_skip_unknown(pkt.rest, Cat(pack_content, Drop(pkt.data, 1)))
         ELSE request_pack_skip_unknown(pkt.rest, pack_content)))

\* GitClient::request_pack from the response body on: the loop over the
\* packet lines of `bytes`, with the pack content gathered so far.
\*  - read_line's error is returned by `?`, its panics are panics;
\*  - get_u8 panics on a Data line with no byte.
RECURSIVE request_pack(_, _)
request_pack(bytes, pack_content) ==
    Bind(read_line(bytes), LAMBDA pkt :
    IF pkt.kind = "Panic" THEN PackResponse("Panic", <<>>, pkt.rest)
    ELSE IF pkt.kind = "Err" THEN PackResponse("Err", <<>>, pkt.rest)
    ELSE IF pkt.kind = "Flush" THEN PackResponse("Ok", pack_content, pkt.rest)
    ELSE IF StartsWith(pkt.data, Nak) THEN request_pack(pkt.rest, pack_content)
    ELSE IF pkt.data = <<>> THEN PackResponse("Panic", <<>>, pkt.rest)
    ELSE Bind(At(pkt.data, 1), LAMBDA first :
         IF first = 1 THEN request_pack(pkt.rest, Cat(pack_content, Drop(pkt.data, 1)))
         ELSE IF first = 2 THEN request_pack(pkt.rest, pack_content)
         ELSE PackResponse("Err", <<>>, pkt.rest)))

(***************************************************************************)
(* request_pack driven on bounded responses.                               *)
(***************************************************************************)
\* number of Data lines of a response between its first line and its Flush
MaxLines == 3

\* a line of the response: "NAK\n", or a payload on a side-band channel
NakLine == [kind |-> "NAK", ch |-> 78, payload |-> Bytes(<<65, 75, LF>>)]

Band(ch, payload) == [kind |-> "Band", ch |-> ch, payload |-> payload]

\* the Data line sent for it
BandLine(line) == as_bytes(PktData(Cat(Rep(line.ch, 1), line.payload)))

RECURSIVE BandLines(_)
BandLines(lines) ==
    IF lines = <<>> THEN <<>> ELSE Cat(BandLine(lines[1]), BandLines(Tail(lines)))

\* pieces of a pack: "P", "AC", a piece that begins with "NAK", a piece
\* of bytes 1 and 2, an empty piece
Pieces == {<<>>, Bytes(<<80>>), Bytes(<<65, 67>>), Bytes(<<78, 65, 75, 75>>), Bytes(<<1, 1, 2>>)}

Progress == Bytes(<<80, 37, LF>>)

ResponseLines ==
    {NakLine} \cup {Band(1, p) : p \in Pieces} \cup {Band(2, Progress)}
              \cup {Band(ch, Bytes(<<80>>)) : ch \in {0, 3}}

FewLines == {NakLine, Band(1, Bytes(<<80>>)), Band(2, Progress), Band(3, Bytes(<<80>>))}

\* what follows the Flush: nothing, or more of channel 1 and a Flush
AfterFlush == {<<>>, Cat(BandLine(Band(1, Bytes(<<75>>))), FlushMarker)}

\* what stands where the Flush should: nothing, a Data line with no byte,
\* a prefix that is no hexadecimal number, half a prefix
NoFlush == {<<>>, Bytes(<<48, 48, 48, 52>>), Bytes(<<48, 48, 122, 122>>), Bytes(<<48, 48>>)}

PackPlan(lines, closed, after) == [lines |-> lines, closed |-> closed, after |-> after]

\* request_pack on a response body
RequestPack(bytes, plan) ==
    /\ fnOp' = "request_pack"
    /\ fnIn' = bytes
    /\ fnPlan' = plan
    /\ fnOut' = request_pack(bytes, <<>>)
    /\ UNCHANGED <<storeVars, pktVars, varIntVars, packVars, cloneVars>>

RequestNext ==
    /\ fnOp = "none"
    /\ \/ \E first \in {<<>>, <<NakLine>>}, more \in SeqsUpTo(ResponseLines, MaxLines),
             after \in AfterFlush :
            RequestPack(Cat(BandLines(first \o more), Cat(FlushMarker, after)),
                        PackPlan(first \o more, TRUE, after))
       \/ \E lines \in SeqsUpTo(FewLines, 2), last \in NoFlush :
            RequestPack(Cat(BandLines(lines), last), PackPlan(lines, FALSE, last))

(***************************************************************************)
(* Claims about request_pack (SpecRequest).                                *)
(***************************************************************************)
\* the payloads of the channel-1 lines, in order
RECURSIVE Channel1Of(_)
Channel1Of(lines) ==
    IF lines = <<>> THEN <<>>
    ELSE IF lines[1].kind = "Band" /\ lines[1].ch = 1
         THEN Cat(lines[1].payload, Channel1Of(Tail(lines)))
         ELSE Channel1Of(Tail(lines))

\* the line is a Data line of a channel other than 1 and 2
UnknownChannel(line) == line.kind = "Band" /\ line.ch \notin {1, 2}

\* C17: on a response of NAK lines, channel-1 lines and channel-2 lines
\* closed by a Flush, request_pack returns the payloads of the channel-1
\* lines, without their channel bytes, concatenated in order; NAK lines and
\* progress payloads add nothing; what follows the Flush is left unread.
C17_Channel1Concatenated ==
    (/\ fnOp = "request_pack"
     /\ fnPlan.closed
     /\ \A i \in 1..Len(fnPlan.lines) : ~UnknownChannel(fnPlan.lines[i]))
    => /\ fnOut.kind = "Ok"
       /\ fnOut.data = Channel1Of(fnPlan.lines)
       /\ fnOut.rest = fnPlan.after

\* "NAK", "P" on channel 1, progress on channel 2, "AC" on channel 1, then
\* a Flush and more of channel 1: the result is "PAC"
C17_Witness ==
    /\ fnOp = "request_pack"
    /\ fnPlan.lines = <<NakLine, Band(1, Bytes(<<80>>)), Band(2, Progress),
                        Band(1, Bytes(<<65, 67>>))>>
    /\ fnPlan.closed
    /\ fnPlan.after # <<>>
    /\ fnOut = PackResponse("Ok", Bytes(<<80, 65, 67>>), fnPlan.after)

\* C18: a Data line that does not begin with "NAK" and whose first byte is
\* neither 1 nor 2, before the first Flush, makes request_pack fail with an
\* error; no pack bytes are returned, whatever channel 1 brought before.
C18_UnknownChannelFails ==
    (/\ fnOp = "request_pack"
     /\ \E i \in 1..Len(fnPlan.lines) : UnknownChannel(fnPlan.lines[i]))
    => /\ fnOut.kind = "Err"
       /\ fnOut.data = <<>>

\* channel 1 brought "P" and "AC", then a line of channel 3 came
C18_Witness ==
    /\ fnOp = "request_pack"
    /\ fnPlan.lines = <<Band(1, Bytes(<<80>>)), Band(1, Bytes(<<65, 67>>)),
                        Band(3, Bytes(<<80>>))>>
    /\ fnPlan.closed
    /\ fnOut.kind = "Err"
    /\ fnOut.data = <<>>

(***************************************************************************)
(* write_tree (lib.rs): the tree of a directory.  A directory is the list  *)
(* of its entries in the order read_dir yields them.                       *)
(***************************************************************************)
\* hex::decode: the bytes of an even number of ASCII hex digits
hex_decode(s) ==
    IF BLen(s) % 2 = 0 /\ AllHex(s) THEN [ok |-> TRUE, bytes |-> HexDecode(s)]
    ELSE [ok |-> FALSE, bytes |-> <<>>]

\* Ord for str: byte by byte, a prefix first
RECURSIVE BytesLess(_, _)
BytesLess(a, b) ==
    IF b = <<>> THEN FALSE
    ELSE IF a = <<>> THEN TRUE
    ELSE IF At(a, 1) # At(b, 1) THEN At(a, 1) < At(b, 1)
    ELSE BytesLess(Drop(a, 1), Drop(b, 1))

TreeEntry(mode, object_type, name, sha1) ==
    [mode |-> mode, object_type |-> object_type, name |-> name, sha1 |-> sha1]

\* ".git"
DotGit == Bytes(<<46, 103, 105, 116>>)

\* "00644", "00755": the modes of a file before the '1' put in front of them
Mode00644 == Bytes(<<48, 48, 54, 52, 52>>)

Mode00755 == Bytes(<<48, 48, 55, 53, 53>>)

\* slice::sort_by(|a, b| a.name.cmp(&b.name)): stable, an entry goes behind
\* the entries that are not greater
RECURSIVE InsertByName(_, _)
InsertByName(sorted, entry) ==
    IF sorted = <<>> THEN <<entry>>
    ELSE IF BytesLess(entry.name, Head(sorted).name) THEN <<entry>> \o sorted
    ELSE <<Head(sorted)>> \o InsertByName(Tail(sorted), entry)

RECURSIVE sort_by_name(_)
sort_by_name(tree_entries) ==
    IF tree_entries = <<>> THEN <<>>
    ELSE InsertByName(sort_by_name(SubSeq(tree_entries, 1, Len(tree_entries) - 1)),
                      tree_entries[Len(tree_entries)])

\* the loop that fills the buffer of the tree: '1' before the mode of a
\* blob, the mode, ' ', the name, NUL, and hex::decode of the 20 bytes of
\* the id, whose error ends write_tree_dir
RECURSIVE put_entries(_, _)
put_entries(tree_entries, buf) ==
    IF tree_entries = <<>> THEN [ok |-> TRUE, buf |-> buf]
    ELSE LET entry == Head(tree_entries)
             one == IF entry.object_type = "Blob" THEN Rep(49, 1) ELSE <<>>
         IN Bind(Cat(buf, Cat(one, Cat(entry.mode, Cat(Rep(SP, 1),
                     Cat(entry.name, Rep(NUL, 1)))))), LAMBDA head :
            Bind(hex_decode(RawId(entry.sha1)), LAMBDA sha_binary :
            IF ~sha_binary.ok THEN [ok |-> FALSE, buf |-> head]
            ELSE put_entries(Tail(tree_entries), Cat(head, sha_binary.bytes))))

\* what write_tree_dir did: Ok(id), an error value or a panic; the content
\* of the tree it stored, the entries in the order they were written, and
\* the object directory it leaves
TreeResult(kind, oid, content, written, fs) ==
    [kind |-> kind, oid |-> oid, content |-> content, written |-> written, files |-> fs]

RECURSIVE write_tree_dir(_, _)
RECURSIVE read_entries(_, _, _)
\* the loop over the directory: a directory other than .git is written as a
\* tree of its own, a file is stored as a blob, anything else is
\* unimplemented!()
read_entries(fs, dir, tree_entries) ==
    IF dir = <<>> THEN [kind |-> "Ok", files |-> fs, tree_entries |-> tree_entries]
    ELSE LET e == Head(dir) IN
         IF e.file_type = "dir"
         THEN IF e.file_name = DotGit THEN read_entries(fs, Tail(dir), tree_entries)
              ELSE Bind(write_tree_dir(fs, e.dir), LAMBDA sub :
                   IF sub.kind # "Ok"
                   THEN [kind |-> sub.kind, files |-> sub.files, tree_entries |-> <<>>]
                   ELSE read_entries(sub.files, Tail(dir),
                                     Append(tree_entries,
                                            TreeEntry(ModeDir, "Tree", e.file_name, sub.oid))))
         ELSE IF e.file_type = "file"
         THEN LET mode == IF e.executable THEN Mode00755 ELSE Mode00644 IN
              Bind(store_object(fs, [object_type |-> "Blob", content |-> e.content]), LAMBDA s :
              read_entries(s.files, Tail(dir),
                           Append(tree_entries, TreeEntry(mode, "Blob", e.file_name, s.oid))))
         ELSE [kind |-> "Panic", files |-> fs, tree_entries |-> <<>>]

\* GitRepo::write_tree_dir on the directory listed as `dir`
write_tree_dir(fs, dir) ==
    Bind(read_entries(fs, dir, <<>>), LAMBDA read :
    IF read.kind # "Ok" THEN TreeResult(read.kind, NoId, <<>>, <<>>, read.files)
    ELSE Bind(sort_by_name(read.tree_entries), LAMBDA sorted :
         Bind(put_entries(sorted, <<>>), LAMBDA put :
         IF ~put.ok THEN TreeResult("Err", NoId, <<>>, <<>>, read.files)
         ELSE Bind(store_object(read.files, [object_type |-> "Tree", content |-> put.buf]),
                   LAMBDA s : TreeResult("Ok", s.oid, put.buf, sorted, s.files)))))

(***************************************************************************)
(* write_tree driven on bounded directories: the command is run twice on   *)
(* one directory, which read_dir lists in another order the second time.   *)
(***************************************************************************)
\* number of entries of the directory
MaxEntries == 2

FileEntry(name, executable, content) ==
    [file_type |-> "file", file_name |-> name, executable |-> executable,
     content |-> content, dir |-> <<>>]

DirEntry(name, dir) ==
    [file_type |-> "dir", file_name |-> name, executable |-> FALSE, content |-> <<>>,
     dir |-> dir]

Symlink(name) ==
    [file_type |-> "symlink", file_name |-> name, executable |-> FALSE, content |-> <<>>,
     dir |-> <<>>]

\* "a", "b", "B", "ab"
FileNames == {Bytes(<<97>>), Bytes(<<98>>), Bytes(<<66>>), Bytes(<<97, 98>>)}

DirEntries ==
    {FileEntry(name, x, BlobHi.content) : name \in FileNames, x \in BOOLEAN}
    \cup {FileEntry(Bytes(<<97>>), FALSE, BlobAb.content),
          DirEntry(DotGit, <<FileEntry(Bytes(<<97>>), FALSE, BlobHi.content)>>),
          DirEntry(Bytes(<<100>>), <<>>),
          DirEntry(Bytes(<<100>>), <<FileEntry(Bytes(<<97>>), FALSE, BlobHi.content)>>),
          Symlink(Bytes(<<115>>))}

\* the listings of a directory: no two entries of one name
Listings ==
    {dir \in SeqsUpTo(DirEntries, MaxEntries) :
        \A i, j \in 1..Len(dir) : i # j => dir[i].file_name # dir[j].file_name}

\* the other orders of a listing
Reordered(dir) ==
    {[i \in 1..Len(dir) |-> dir[p[i]]] :
        p \in {q \in [1..Len(dir) -> 1..Len(dir)] :
                  /\ \A i, j \in 1..Len(dir) : i # j => q[i] # q[j]
                  /\ \E i \in 1..Len(dir) : q[i] # i}}

\* write_tree on the directory listed as dir
WriteTree(dir) ==
    \E r \in {write_tree_dir(files, dir)} :
    /\ fnOp' = "write_tree"
    /\ fnIn' = Append(fnIn, dir)
    /\ fnPlan' = <<>>
    /\ fnOut' = IF fnOp = "none" THEN <<r>> ELSE Append(fnOut, r)
    /\ files' = r.files
    /\ UNCHANGED <<stored, got, calls, pktVars, varIntVars, packVars, cloneVars>>

TreeNext ==
    \/ /\ fnOp = "none"
       /\ \E dir \in Listings : WriteTree(dir)
    \/ /\ fnOp = "write_tree"
       /\ Len(fnIn) = 1
       /\ \E dir \in Reordered(fnIn[1]) : WriteTree(dir)

(***************************************************************************)
(* Claims about write_tree (SpecTree).                                     *)
(***************************************************************************)
\* the entries of the listing that write_tree_dir writes: all but .git
Written(dir) == SelectSeq(dir, LAMBDA e : ~(e.file_type = "dir" /\ e.file_name = DotGit))

OnlyFilesAndDirs(dir) == \A i \in 1..Len(dir) : dir[i].file_type \in {"file", "dir"}

\* the names are in ascending byte-wise order
Ascending(tree_entries) ==
    \A i \in 1..(Len(tree_entries) - 1) :
        BytesLess(tree_entries[i].name, tree_entries[i + 1].name)

\* C13: write_tree_dir run on two listings of the same files and directories
\* in different orders produces the same tree content and the same tree id,
\* with every listed entry (.git apart) written, in ascending byte-wise
\* order of the names.
C13_TreeOrderIndependent ==
    (/\ fnOp = "write_tree"
     /\ Len(fnIn) = 2
     /\ OnlyFilesAndDirs(fnIn[1]))
    => /\ fnOut[1].kind = "Ok"
       /\ fnOut[2].kind = "Ok"
       /\ fnOut[1].content = fnOut[2].content
       /\ fnOut[1].oid = fnOut[2].oid
       /\ Len(fnOut[1].written) = Len(Written(fnIn[1]))
       /\ Ascending(fnOut[1].written)

(***************************************************************************)
(* Commits, trees and the checkout (lib.rs).  The directory a repository   *)
(* is cloned into is a record of its directories and of its files, both    *)
(* named by their path below it; the loose objects are kept apart, by id.  *)
(***************************************************************************)
\* b'/'
SLASH == 47

\* BufRead::read_line and strip_prefix("tree ") of read_prefixed_line,
\* whose expect panics on another line; then ObjectId::from_str of the
\* trimmed rest of the line
Commit_parse(bytes) ==
    LET prefix == Bytes(<<116, 114, 101, 101, 32>>) IN
    Bind(Take(bytes, ReadUntilLen(bytes, LF)), LAMBDA line :
    IF ~StartsWith(line, prefix) THEN [kind |-> "Panic", tree |-> NoId]
    ELSE Bind(ObjectId_from_str(Trim(Drop(line, BLen(prefix)))), LAMBDA tree :
         IF tree.ok THEN [kind |-> "Ok", tree |-> tree.oid]
         ELSE [kind |-> "Err", tree |-> NoId]))

\* Object::as_commit: Some(commit), None, or the panic of Commit::parse
as_commit(object) ==
    IF object.object_type # "Commit" THEN [kind |-> "None", tree |-> NoId]
    ELSE Bind(Commit_parse(object.content), LAMBDA c :
         IF c.kind = "Err" THEN [kind |-> "None", tree |-> NoId]
         ELSE [kind |-> IF c.kind = "Ok" THEN "Some" ELSE c.kind, tree |-> c.tree])

NoEntry == TreeEntry(<<>>, "Tree", <<>>, NoId)

\* TreeEntry::parse on a buffer with bytes left: the mode is what read_until
\* took up to b' ' less its last byte, the name what it took up to NUL less
\* its last byte (`n - 1` with n = 0 panics or indexes out of range: a
\* panic in every build), the id the next 20 bytes (read_exact fails on
\* fewer)
TreeEntry_parse(bytes) ==
    Bind(ReadUntilLen(bytes, SP), LAMBDA n :
    Bind(Take(bytes, n - 1), LAMBDA mode :
    Bind(Drop(bytes, n), LAMBDA rest :
    Bind(ReadUntilLen(rest, NUL), LAMBDA m :
    Bind(Drop(rest, m), LAMBDA tail :
    LET name == Take(rest, m - 1)
    IN IF m = 0 THEN [kind |-> "Panic", entry |-> NoEntry, rest |-> tail]
       ELSE IF BLen(tail) < 20 THEN [kind |-> "Err", entry |-> NoEntry, rest |-> <<>>]
       ELSE [kind |-> "Ok",
             entry |-> TreeEntry(mode,
                                 IF mode # <<>> /\ At(mode, 1) = 49 THEN "Blob" ELSE "Tree",
                                 name, IdFromRaw(Take(tail, 20))),
             rest |-> Drop(tail, 20)])))))

\* Tree::parse: entries are read while bytes remain
RECURSIVE Tree_parse(_, _)
Tree_parse(bytes, parsed) ==
    IF bytes = <<>> THEN [kind |-> "Ok", entries |-> parsed]
    ELSE Bind(TreeEntry_parse(bytes), LAMBDA e :
         IF e.kind # "Ok" THEN [kind |-> e.kind, entries |-> <<>>]
         ELSE Tree_parse(e.rest, Append(parsed, e.entry)))

\* Object::as_tree: Some(tree), None, or the panic of its expect
as_tree(object) ==
    IF object.object_type # "Tree" THEN [kind |-> "None", entries |-> <<>>]
    ELSE Bind(Tree_parse(object.content, <<>>), LAMBDA t :
         IF t.kind = "Ok" THEN [kind |-> "Some", entries |-> t.entries]
         ELSE [kind |-> "Panic", entries |-> <<>>])

\* Path::join of a directory below the clone directory and a name
Join(dir, name) == IF dir = <<>> THEN name ELSE Cat(dir, Cat(Rep(SLASH, 1), name))

\* position of the last b'/' of a path, 0 when it has none
RECURSIVE LastSlash(_)
LastSlash(path) ==
    Bind(IndexOf(path, SLASH), LAMBDA k :
         IF k = 0 THEN 0
         ELSE Bind(LastSlash(Drop(path, k)), LAMBDA more : IF more = 0 THEN k ELSE k + more))

\* Path::parent
Parent(path) == Take(path, LastSlash(path) - 1)

\* name.split('/').last()
LastPart(name) == Drop(name, LastSlash(name))

\* the directory and every directory above it
RECURSIVE Ancestors(_)
Ancestors(dir) == IF dir = <<>> THEN {<<>>} ELSE {dir} \cup Ancestors(Parent(dir))

\* fs::create_dir_all: fails when a file stands where a directory should
create_dir_all(disk, dir) ==
    Bind(Ancestors(dir), LAMBDA above :
         IF above \cap DOMAIN disk.files # {} THEN [ok |-> FALSE, disk |-> disk]
         ELSE [ok |-> TRUE, disk |-> [disk EXCEPT !.dirs = @ \cup above]])

\* fs::write, File::create and write_all: the file is created or replaced;
\* fails when the parent is no directory or the path is one
write_file(disk, path, content) ==
    IF Parent(path) \notin disk.dirs \/ path \in disk.dirs \/ path = <<>>
    THEN [ok |-> FALSE, disk |-> disk]
    ELSE [ok |-> TRUE,
          disk |-> [disk EXCEPT !.files =
                        [p \in DOMAIN disk.files \cup {path} |->
                            IF p = path THEN content ELSE disk.files[p]]]]

\* fs::read_to_string
read_file(disk, path) ==
    IF path \in DOMAIN disk.files THEN [ok |-> TRUE, content |-> disk.files[path]]
    ELSE [ok |-> FALSE, content |-> <<>>]

CheckoutResult(kind, disk) == [kind |-> kind, disk |-> disk]

RECURSIVE checkout_tree_in_dir(_, _, _, _)
RECURSIVE checkout_entries(_, _, _, _)
\* the loop of checkout_tree_in_dir over the entries of a tree: a
\* directory is created and entered for a tree entry, the content of the
\* object is written to a file for another
checkout_entries(fs, tree_entries, dir, disk) ==
    IF tree_entries = <<>> THEN CheckoutResult("Ok", disk)
    ELSE LET entry == Head(tree_entries) IN
         IF entry.object_type = "Tree"
         THEN Bind(Join(dir, entry.name), LAMBDA new_dir :
              Bind(create_dir_all(disk, new_dir), LAMBDA made :
              IF ~made.ok THEN CheckoutResult("Err", disk)
              ELSE Bind(checkout_tree_in_dir(fs, entry.sha1, new_dir, made.disk), LAMBDA sub :
                   IF sub.kind # "Ok" THEN sub
                   ELSE checkout_entries(fs, Tail(tree_entries), dir, sub.disk))))
         ELSE Bind(get_object(fs, entry.sha1), LAMBDA blob :
              IF ~blob.ok THEN CheckoutResult("Err", disk)
              ELSE Bind(write_file(disk, Join(dir, entry.name), blob.content), LAMBDA written :
                   IF ~written.ok THEN CheckoutResult("Err", disk)
                   ELSE checkout_entries(fs, Tail(tree_entries), dir, written.disk)))

\* faulty variant: the entries of a tree are not written
checkout_tree_in_dir_nothing(fs, tree, dir, disk) ==
    Bind(get_object(fs, tree), LAMBDA object :
    IF ~object.ok THEN CheckoutResult("Err", disk)
    ELSE Bind(as_tree(object), LAMBDA t :
         IF t.kind = "Panic" THEN CheckoutResult("Panic", disk)
         ELSE IF t.kind = "None" THEN CheckoutResult("Err", disk)
         ELSE CheckoutResult("Ok", disk)))

\* GitRepo::checkout_tree_in_dir
checkout_tree_in_dir(fs, tree, dir, disk) ==
    Bind(get_object(fs, tree), LAMBDA object :
    IF ~object.ok THEN CheckoutResult("Err", disk)
    ELSE Bind(as_tree(object), LAMBDA t :
         IF t.kind = "Panic" THEN CheckoutResult("Panic", disk)
         ELSE IF t.kind = "None" THEN CheckoutResult("Err", disk)
         ELSE checkout_entries(fs, t.entries, dir, disk)))

\* ".git"/...
GitPath(path) == Join(DotGit, path)

\* "HEAD"
HeadFile == GitPath(NameHEAD)

\* "ref: "
SymrefPrefix == Bytes(<<114, 101, 102, 58, 32>>)

\* GitRepo::resolve_head: the id in the file HEAD names
resolve_head(disk) ==
    Bind(read_file(disk, HeadFile), LAMBDA head :
    IF ~head.ok \/ ~StartsWith(head.content, SymrefPrefix) THEN [ok |-> FALSE, oid |-> NoId]
    ELSE LET head_ref == Trim(Drop(head.content, BLen(SymrefPrefix))) IN
         Bind(read_file(disk, GitPath(head_ref)), LAMBDA target_ref :
         IF ~target_ref.ok THEN [ok |-> FALSE, oid |-> NoId]
         ELSE ObjectId_from_str(Trim(target_ref.content))))

\* GitRepo::checkout_head
checkout_head(fs, disk) ==
    Bind(resolve_head(disk), LAMBDA head :
    IF ~head.ok THEN CheckoutResult("Err", disk)
    ELSE Bind(get_object(fs, head.oid), LAMBDA object :
         IF ~object.ok THEN CheckoutResult("Err", disk)
         ELSE Bind(as_commit(object), LAMBDA target_commit :
              IF target_commit.kind = "Panic" THEN CheckoutResult("Panic", disk)
              ELSE IF target_commit.kind = "None" THEN CheckoutResult("Err", disk)
              ELSE checkout_tree_in_dir(fs, target_commit.tree, <<>>, disk))))

(***************************************************************************)
(* GitRepo::clone (lib.rs), step by step.  The run is in one phase at a    *)
(* time; a `?` that meets an error, or a panic, ends it in "Failed".       *)
(***************************************************************************)
PhaseOrder ==
    <<"Discovering", "Negotiating", "Decoding", "Storing", "ResolvingDeltas", "WritingRefs",
      "CheckingOut", "Done">>

\* Ref::is_tag
is_tag(ref) == StartsWith(ref.name, Bytes(<<114, 101, 102, 115, 47, 116, 97, 103, 115>>))

\* Ref::is_peeled_tag
is_peeled_tag(ref) ==
    LET suffix == Bytes(<<94, 123, 125>>)
    IN BLen(ref.name) >= BLen(suffix) /\ Drop(ref.name, BLen(ref.name) - BLen(suffix)) = suffix

\* "{oid}\n"
IdLine(oid) == Cat(HexId(oid), Rep(LF, 1))

\* ".git/refs/tags", ".git/refs/remotes/origin"
TagsDir == GitPath(Bytes(<<114, 101, 102, 115, 47, 116, 97, 103, 115>>))

BranchesDir == GitPath(Bytes(<<114, 101, 102, 115, 47, 114, 101, 109, 111, 116, 101, 115, 47, 111, 114, 105, 103, 105, 110>>))

\* GitRepo::init in a directory that was just created
init(d) ==
    [dirs |-> d.dirs \cup {DotGit, GitPath(Bytes(<<111, 98, 106, 101, 99, 116, 115>>)), GitPath(Bytes(<<114, 101, 102, 115>>)),
                           GitPath(Bytes(<<114, 101, 102, 115, 47, 104, 101, 97, 100, 115>>)), GitPath(Bytes(<<116, 97, 103, 115>>))},
     files |-> write_file([d EXCEPT !.dirs = @ \cup {DotGit}], HeadFile,
                          Bytes(<<114, 101, 102, 58, 32, 114, 101, 102, 115, 47, 104, 101, 97, 100, 115, 47, 109, 97, 115, 116, 101, 114, 10>>)).disk.files]

\* the loops `for tag in tags` and `for branch in branches`: a file named
\* by the last part of the name of the ref, holding its id
RECURSIVE write_refs(_, _, _)
write_refs(d, refs, dir) ==
    IF refs = <<>> THEN [ok |-> TRUE, disk |-> d]
    ELSE Bind(write_file(d, Join(dir, LastPart(Head(refs).name)), IdLine(Head(refs).oid)),
              LAMBDA w : IF ~w.ok THEN w ELSE write_refs(w.disk, Tail(refs), dir))

\* faulty variant of the partition: HEAD is no branch
branches_of_no_head(refs) ==
    SelectSeq(refs, LAMBDA r : ~is_peeled_tag(r) /\ ~is_tag(r) /\ r.name # NameHEAD)

\* the partition of the refs that are no peeled tags: the tags
tags_of(refs) == SelectSeq(refs, LAMBDA r : ~is_peeled_tag(r) /\ is_tag(r))

\* and the branches, that is all the others
branches_of(refs) == SelectSeq(refs, LAMBDA r : ~is_peeled_tag(r) /\ ~is_tag(r))

\* advertised.iter().find(..): the first ref that is HEAD, the first other
\* ref with the id of HEAD
HasHead(refs) == \E i \in 1..Len(refs) : refs[i].name = NameHEAD

RemoteHead(refs) == refs[CHOOSE i \in 1..Len(refs) :
                            refs[i].name = NameHEAD /\ \A j \in 1..(i - 1) : refs[j].name # NameHEAD]

IsTarget(refs, r) == r.name # NameHEAD /\ r.oid = RemoteHead(refs).oid

HasTarget(refs) == \E i \in 1..Len(refs) : IsTarget(refs, refs[i])

RemoteHeadTarget(refs) ==
    refs[CHOOSE i \in 1..Len(refs) :
            IsTarget(refs, refs[i]) /\ \A j \in 1..(i - 1) : ~IsTarget(refs, refs[j])]

\* lines 268-286: the local branch of the target of HEAD, and HEAD
set_head(d, refs) ==
    IF ~HasHead(refs) \/ ~HasTarget(refs) THEN [ok |-> FALSE, disk |-> d]
    ELSE Bind(RemoteHeadTarget(refs), LAMBDA target :
         Bind(write_file(d, GitPath(target.name), IdLine(target.oid)), LAMBDA branch :
         IF ~branch.ok THEN branch
         ELSE write_file(branch.disk, HeadFile,
                         Cat(SymrefPrefix, Cat(target.name, Rep(LF, 1))))))

(***************************************************************************)
(* The servers clone is run against: a ref-discovery response and a pack   *)
(* response.                                                               *)
(***************************************************************************)
\* "refs/pull/1/head"
NamePull == Bytes(<<114, 101, 102, 115, 47, 112, 117, 108, 108, 47, 49, 47, 104, 101, 97, 100>>)

\* "refs/heads/a/main"
NameTopicMain == Bytes(<<114, 101, 102, 115, 47, 104, 101, 97, 100, 115, 47, 97, 47, 109, 97, 105, 110>>)

\* the lists of refs of the servers, over the ids of CommitF, CommitDF and
\* CommitOfBlob
RefListsOf(idF, idDF, idOfBlob) ==
    {<<AdLine(IdA, NameHEAD, CapsA), AdLine(IdA, NameMain, <<>>)>>,
     <<AdLine(idF, NameHEAD, CapsA), AdLine(idF, NameMain, <<>>)>>,
     <<AdLine(idDF, NameHEAD, CapsA), AdLine(idF, NameDev, <<>>),
       AdLine(idDF, NameMain, <<>>), AdLine(idF, NameTag, <<>>),
       AdLine(idF, NamePeeled, <<>>)>>,
     <<AdLine(idF, NameMain, CapsA)>>,
     <<AdLine(idF, NameHEAD, CapsA), AdLine(IdA, NameMain, <<>>)>>,
     <<>>,
     <<AdLine(idOfBlob, NameHEAD, CapsA), AdLine(idOfBlob, NameDev, <<>>)>>,
     <<AdLine(idF, NameHEAD, CapsA), AdLine(idF, NameTag, <<>>)>>,
     <<AdLine(idF, NameHEAD, CapsA), AdLine(idF, NamePull, <<>>)>>,
     <<AdLine(idF, NameHEAD, CapsA), AdLine(idDF, NameTopicMain, <<>>),
       AdLine(idF, NameMain, <<>>)>>}

RefLists == RefListsOf(ObjectIdOf(CommitF), ObjectIdOf(CommitDF), ObjectIdOf(CommitOfBlob))

RefResponses ==
    {GoodResponse(ads) : ads \in RefLists}
    \cup {RefResponse(PktFlush, FlushMarker, <<>>, FlushMarker)}

\* a pack on channel 1 in two lines, after "NAK" and with progress between
SideBand(pack) ==
    Cat(BandLines(<<NakLine, Band(1, Take(pack, 12)), Band(2, Progress),
                    Band(1, Drop(pack, 12))>>),
        FlushMarker)

\* the packs of the servers, over the entries of CommitF and of TreeF
PackListsOf(commit, tree) ==
    {<<commit, tree, FullObject(BlobHi)>>,
     <<commit, FullObject(BlobHi)>>,
     <<FullObject(CommitDF), FullObject(TreeDF), FullObject(TreeAX), FullObject(BlobHi),
       FullObject(BlobAb)>>,
     <<commit, tree, FullObject(BlobHi), FullObject(BlobAb), RefDelta(FirstOfChain)>>,
     <<commit, tree, FullObject(BlobHi), RefDelta(FirstOfChain)>>,
     <<FullObject(CommitOfBlob), FullObject(BlobHi)>>,
     <<>>}

PackLists == PackListsOf(FullObject(CommitF), FullObject(TreeF))

PackResponses ==
    {SideBand(EncodePack(objects)) : objects \in PackLists}
    \cup {SideBand(EncodePackAs(PackSig, 4, 1, <<FullObject(BlobHi)>>)),
          Cat(BandLines(<<NakLine, Band(3, Bytes(<<80>>))>>), FlushMarker)}

Remote(refs, pack) == [refs |-> refs, pack |-> pack]

NoRemote == Remote(<<>>, <<>>)

NoDisk == [dirs |-> {}, files |-> <<>>]

CloneInit ==
    /\ phase = "idle"
    /\ trace = <<>>
    /\ remote = NoRemote
    /\ requests = <<>>
    /\ advertisedRefs = <<>>
    /\ packData = <<>>
    /\ refsWritten = FALSE
    /\ cloneDir = NoDisk
    /\ result = "none"

\* the run enters the phase p
Enter(p) ==
    /\ phase' = p
    /\ trace' = Append(trace, p)
    /\ result' = IF p = "Done" THEN "Ok" ELSE result

\* the run ends with an error value or a panic
Fail(kind) ==
    /\ phase' = "Failed"
    /\ trace' = Append(trace, "Failed")
    /\ result' = kind

\* clone is called: the server, whether the directory exists already, and
\* the build
CloneStart(server, exists, checks) ==
    /\ phase = "idle"
    /\ Enter("Discovering")
    /\ remote' = server
    /\ cloneDir' = [dirs |-> IF exists THEN {<<>>} ELSE {}, files |-> <<>>]
    /\ overflowChecks' = checks
    /\ UNCHANGED <<storeVars, pktVars, vOp, vIn, vEnc, vBuf, vOut, packVars, fnVars,
                   requests, advertisedRefs, packData, refsWritten>>

\* discover_refs()? and advertised.first().expect(..)
CloneDiscover ==
    /\ phase = "Discovering"
    /\ \E r \in {discover_refs(remote.refs)} :
       IF r.kind # "Ok" THEN Fail(r.kind) /\ UNCHANGED advertisedRefs
       ELSE IF r.refs = <<>> THEN Fail("Panic") /\ UNCHANGED advertisedRefs
       ELSE Enter("Negotiating") /\ advertisedRefs' = r.refs
    /\ UNCHANGED <<storeVars, pktVars, varIntVars, packVars, fnVars,
                   remote, requests, packData, refsWritten, cloneDir>>

\* the body of the request for oid: the want line, a flush and "done"
WantRequest(oid) ==
    Cat(as_bytes(PktData(Cat(Bytes(<<119, 97, 110, 116, 32>>), Cat(HexId(oid), Bytes(<<32, 109, 117, 108, 116, 105, 95, 97, 99, 107, 32, 115, 105, 100, 101, 45, 98, 97, 110, 100, 45, 54, 52, 107, 10>>))))),
        Cat(as_bytes(PktFlush), as_bytes(PktData(Bytes(<<100, 111, 110, 101, 10>>)))))

\* faulty variant: the request is for the last advertised ref
CloneRequest_last ==
    /\ phase = "Negotiating"
    /\ requests' = Append(requests, WantRequest(advertisedRefs[Len(advertisedRefs)].oid))
    /\ \E r \in {request_pack(remote.pack, <<>>)} :
       IF r.kind # "Ok" THEN Fail(r.kind) /\ UNCHANGED packData
       ELSE Enter("Decoding") /\ packData' = r.data
    /\ UNCHANGED <<storeVars, pktVars, varIntVars, packVars, fnVars,
                   remote, advertisedRefs, refsWritten, cloneDir>>

\* request_pack(reference.oid)? for the first advertised ref: the request
\* is posted and the response is read
CloneRequest ==
    /\ phase = "Negotiating"
    /\ requests' = Append(requests, WantRequest(Head(advertisedRefs).oid))
    /\ \E r \in {request_pack(remote.pack, <<>>)} :
       IF r.kind # "Ok" THEN Fail(r.kind) /\ UNCHANGED packData
       ELSE Enter("Decoding") /\ packData' = r.data
    /\ UNCHANGED <<storeVars, pktVars, varIntVars, packVars, fnVars,
                   remote, advertisedRefs, refsWritten, cloneDir>>

\* faulty variant: the directory is created and initialised before the
\* pack is decoded
CloneDecode_create_first ==
    /\ phase = "Decoding"
    /\ \E r \in {PackFile_parse(packData, overflowChecks)} :
       IF <<>> \in cloneDir.dirs THEN Fail("Err") /\ UNCHANGED <<cloneDir, pc, entries>>
       ELSE /\ cloneDir' = init([cloneDir EXCEPT !.dirs = @ \cup {<<>>}])
            /\ IF r.kind # "Ok" THEN Fail(r.kind) /\ UNCHANGED <<pc, entries>>
               ELSE /\ Enter("Storing")
                    /\ entries' = r.objects
                    /\ pc' = IF r.objects = <<>> THEN "deltas" ELSE "storing"
    /\ UNCHANGED <<storeVars, pktVars, varIntVars, deltas, resolved, fnVars,
                   remote, requests, advertisedRefs, packData, refsWritten>>

\* PackFile::parse(..)?, create_dir(dir)?, repo.init()?, and the entry
\* into explode_into_repo
CloneDecode ==
    /\ phase = "Decoding"
    /\ \E r \in {PackFile_parse(packData, overflowChecks)} :
       IF r.kind # "Ok" THEN Fail(r.kind) /\ UNCHANGED <<cloneDir, pc, entries>>
       ELSE IF <<>> \in cloneDir.dirs THEN Fail("Err") /\ UNCHANGED <<cloneDir, pc, entries>>
       ELSE /\ Enter("Storing")
            /\ cloneDir' = init([cloneDir EXCEPT !.dirs = @ \cup {<<>>}])
            /\ entries' = r.objects
            /\ pc' = IF r.objects = <<>> THEN "deltas" ELSE "storing"
    /\ UNCHANGED <<storeVars, pktVars, varIntVars, deltas, resolved, fnVars,
                   remote, requests, advertisedRefs, packData, refsWritten>>

\* the first loop of explode_into_repo takes an entry
CloneStoreEntry ==
    /\ phase = "Storing"
    /\ ExplodeEntry

\* the first loop is over
CloneStored ==
    /\ phase = "Storing"
    /\ pc = "deltas"
    /\ Enter("ResolvingDeltas")
    /\ UNCHANGED <<storeVars, pktVars, varIntVars, packVars, fnVars,
                   remote, requests, advertisedRefs, packData, refsWritten, cloneDir>>

\* the second loop takes a delta
CloneResolveDelta ==
    /\ phase = "ResolvingDeltas"
    /\ ExplodeDelta

\* faulty variant: the failure of a delta is not looked at
CloneDeltaIgnored ==
    /\ phase = "ResolvingDeltas"
    /\ pc \in {"Err", "Panic"}
    /\ Enter("WritingRefs")
    /\ UNCHANGED <<storeVars, pktVars, varIntVars, packVars, fnVars,
                   remote, requests, advertisedRefs, packData, refsWritten, cloneDir>>

\* explode_into_repo(&repo)? on a delta that failed
CloneDeltaFailed ==
    /\ phase = "ResolvingDeltas"
    /\ pc \in {"Err", "Panic"}
    /\ Fail(pc)
    /\ UNCHANGED <<storeVars, pktVars, varIntVars, packVars, fnVars,
                   remote, requests, advertisedRefs, packData, refsWritten, cloneDir>>

\* the second loop is over: explode_into_repo returns Ok(())
CloneResolved ==
    /\ phase = "ResolvingDeltas"
    /\ pc = "deltas"
    /\ deltas = <<>>
    /\ Enter("WritingRefs")
    /\ pc' = "Ok"
    /\ UNCHANGED <<storeVars, pktVars, varIntVars, entries, deltas, resolved, fnVars,
                   remote, requests, advertisedRefs, packData, refsWritten, cloneDir>>

\* lines 243-266: the directories of the tags and of the branches, and a
\* file for each tag and for each branch
CloneWriteRefs ==
    /\ phase = "WritingRefs"
    /\ ~refsWritten
    /\ \E tags \in {write_refs(
                        create_dir_all(create_dir_all(cloneDir, TagsDir).disk, BranchesDir).disk,
                        tags_of(advertisedRefs), TagsDir)} :
       \E branches \in {write_refs(tags.disk, branches_of(advertisedRefs), BranchesDir)} :
          IF ~tags.ok THEN Fail("Err") /\ cloneDir' = tags.disk /\ UNCHANGED refsWritten
          ELSE IF ~branches.ok
          THEN Fail("Err") /\ cloneDir' = branches.disk /\ UNCHANGED refsWritten
          ELSE /\ cloneDir' = branches.disk
               /\ refsWritten' = TRUE
               /\ UNCHANGED <<phase, trace, result>>
    /\ UNCHANGED <<storeVars, pktVars, varIntVars, packVars, fnVars,
                   remote, requests, advertisedRefs, packData>>

\* lines 268-286: the branch HEAD points to, and HEAD
CloneSetHead ==
    /\ phase = "WritingRefs"
    /\ refsWritten
    /\ \E r \in {set_head(cloneDir, advertisedRefs)} :
       /\ cloneDir' = r.disk
       /\ IF r.ok THEN Enter("CheckingOut") ELSE Fail("Err")
    /\ UNCHANGED <<storeVars, pktVars, varIntVars, packVars, fnVars,
                   remote, requests, advertisedRefs, packData, refsWritten>>

\* repo.checkout_head()? and Ok(repo)
CloneCheckout ==
    /\ phase = "CheckingOut"
    /\ \E r \in {checkout_head(files, cloneDir)} :
       /\ cloneDir' = r.disk
       /\ IF r.kind = "Ok" THEN Enter("Done") ELSE Fail(r.kind)
    /\ UNCHANGED <<storeVars, pktVars, varIntVars, packVars, fnVars,
                   remote, requests, advertisedRefs, packData, refsWritten>>

CloneNext ==
    \/ \E refs \in RefResponses, pack \in PackResponses, exists \in BOOLEAN, checks \in BOOLEAN :
         CloneStart(Remote(refs, pack), exists, checks)
    \/ CloneDiscover
    \/ CloneRequest
    \/ CloneDecode
    \/ CloneStoreEntry
    \/ CloneStored
    \/ CloneResolveDelta
    \/ CloneDeltaFailed
    \/ CloneResolved
    \/ CloneWriteRefs
    \/ CloneSetHead
    \/ CloneCheckout

(***************************************************************************)
(* Claims about clone (SpecClone).                                         *)
(***************************************************************************)
\* the file at path holds content
FileIs(path, content) == path \in DOMAIN cloneDir.files /\ cloneDir.files[path] = content

\* the files of the working directory: those outside .git
WorkFiles == {p \in DOMAIN cloneDir.files : ~StartsWith(p, DotGit)}

\* the run against the server, into a directory that did not exist, is over
CloneRan(server) ==
    /\ remote = server
    /\ phase \in {"Done", "Failed"}
    /\ \E i \in 1..Len(trace) : trace[i] = "Storing"

\* HEAD and refs/heads/main at the id of 40 'a', a pack of a commit and a blob
ServerOfCommitAndBlob ==
    Remote(GoodResponse(<<AdLine(IdA, NameHEAD, CapsA), AdLine(IdA, NameMain, <<>>)>>),
           SideBand(EncodePack(<<FullObject(CommitF), FullObject(BlobHi)>>)))

\* HEAD and refs/heads/main at the id of the commit, a pack of the commit,
\* its tree and its blob
ServerOfCommitTreeAndBlob ==
    Remote(GoodResponse(<<AdLine(ObjectIdOf(CommitF), NameHEAD, CapsA),
                          AdLine(ObjectIdOf(CommitF), NameMain, <<>>)>>),
           SideBand(EncodePack(<<FullObject(CommitF), FullObject(TreeF), FullObject(BlobHi)>>)))

\* "ref: refs/heads/main\n"
HeadAtMain == Cat(SymrefPrefix, Cat(NameMain, Rep(LF, 1)))

\* C14 as stated: with HEAD and refs/heads/main advertised at the id of 40
\* 'a' and a pack of one commit and one blob, clone completes; it leaves
\* refs/heads/main holding that id and a line feed, HEAD holding
\* "ref: refs/heads/main\n", and the blob's file in the working directory.
C14_CloneOfCommitAndBlob ==
    CloneRan(ServerOfCommitAndBlob)
    => /\ phase = "Done"
       /\ FileIs(GitPath(NameMain), IdLine(IdA))
       /\ FileIs(HeadFile, HeadAtMain)
       /\ \E p \in WorkFiles : cloneDir.files[p] = BlobHi.content

\* C14 amended: with that response and that pack, clone writes
\* refs/heads/main and HEAD as said and then fails in the checkout with an
\* error, the working directory empty (the id of 40 'a' names no object of
\* the pack, and the pack has no tree); with HEAD and refs/heads/main at the
\* id of the commit and a pack of the commit, its tree and its blob, clone
\* completes, refs/heads/main holds the id of the commit and a line feed,
\* HEAD holds "ref: refs/heads/main\n", and the working directory holds
\* the blob's file and nothing else.
C14_CloneOfCommitTreeAndBlob ==
    /\ CloneRan(ServerOfCommitAndBlob)
       => /\ phase = "Failed"
          /\ result = "Err"
          /\ trace[Len(trace) - 1] = "CheckingOut"
          /\ FileIs(GitPath(NameMain), IdLine(IdA))
          /\ FileIs(HeadFile, HeadAtMain)
          /\ WorkFiles = {}
    /\ CloneRan(ServerOfCommitTreeAndBlob)
       => /\ phase = "Done"
          /\ FileIs(GitPath(NameMain), IdLine(ObjectIdOf(CommitF)))
          /\ FileIs(HeadFile, HeadAtMain)
          /\ WorkFiles = {Rep(102, 1)}
          /\ FileIs(Rep(102, 1), BlobHi.content)

\* the clone of the commit, its tree and its blob is done: the file "f"
\* holds "hi"
C14_Witness ==
    /\ CloneRan(ServerOfCommitTreeAndBlob)
    /\ phase = "Done"
    /\ FileIs(GitPath(NameMain), IdLine(ObjectIdOf(CommitF)))
    /\ FileIs(Rep(102, 1), Bytes(<<104, 105>>))

\* the phase after p
NextPhase(p) == PhaseOrder[(CHOOSE i \in 1..Len(PhaseOrder) : PhaseOrder[i] = p) + 1]

\* the work of the phase the run is in has succeeded
Succeeded ==
    CASE phase = "Discovering" ->
             discover_refs(remote.refs).kind = "Ok" /\ discover_refs(remote.refs).refs # <<>>
      [] phase = "Negotiating" -> request_pack(remote.pack, <<>>).kind = "Ok"
      [] phase = "Decoding" ->
             PackFile_parse(packData, overflowChecks).kind = "Ok" /\ <<>> \notin cloneDir.dirs
      [] phase = "Storing" -> entries = <<>>
      [] phase = "ResolvingDeltas" -> deltas = <<>> /\ pc \notin {"Err", "Panic"}
      [] phase = "WritingRefs" -> refsWritten /\ set_head(cloneDir, advertisedRefs).ok
      [] phase = "CheckingOut" -> checkout_head(files, cloneDir).kind = "Ok"
      [] OTHER -> FALSE

\* the phases entered so far are the first phases, in order, with "Failed"
\* after them if the run failed
InOrder ==
    LET n == IF phase = "Failed" THEN Len(trace) - 1 ELSE Len(trace) IN
    /\ n <= Len(PhaseOrder)
    /\ SubSeq(trace, 1, n) = SubSeq(PhaseOrder, 1, n)
    /\ phase # "idle" => phase = trace[Len(trace)]
    /\ phase = "Failed" => result \in {"Err", "Panic"}
    /\ phase = "Done" => result = "Ok"

\* C19: the phases of clone are entered in the order discover refs, request
\* pack, decode pack, store non-delta objects, resolve deltas, write refs,
\* check out, done; the run leaves a phase for the next one only when the
\* work of the phase succeeded, and for "Failed" otherwise; nothing happens
\* after "Failed" or "Done"; objects are stored only while storing and
\* resolving deltas, and the directory is written only when the repository
\* is initialised, while writing refs and while checking out.
C19_PhasesInOrder ==
    /\ []InOrder
    /\ [][(phase # "idle" /\ phase' # phase)
            => phase' = IF Succeeded THEN NextPhase(phase) ELSE "Failed"]_vars
    /\ [][phase \notin {"Failed", "Done"}]_vars
    /\ [][files' # files => phase \in {"Storing", "ResolvingDeltas"}]_vars
    /\ [][(phase # "idle" /\ cloneDir' # cloneDir)
            => phase \in {"Decoding", "WritingRefs", "CheckingOut"}]_vars

\* a run that resolved a delta and went through every phase
C19_Witness ==
    /\ phase = "Done"
    /\ trace = PhaseOrder
    /\ resolved # <<>>
    /\ result = "Ok"

\* the ref is a tag, a branch, in the words of the claim
AdvertisedTag(ref) == StartsWith(ref.name, Bytes(<<114, 101, 102, 115, 47, 116, 97, 103, 115, 47>>)) /\ ~is_peeled_tag(ref)

AdvertisedBranch(ref) ==
    ~StartsWith(ref.name, Bytes(<<114, 101, 102, 115, 47, 116, 97, 103, 115, 47>>)) /\ ~is_peeled_tag(ref) /\ ref.name # NameHEAD

\* C20: once the tag and branch files are written, there is a file holding
\* "{id}\n" for each advertised tag and for each advertised branch, named
\* by the last part of the name of the ref; there is no such file for the
\* advertised HEAD and none for a peeled tag.
C20_RefFiles ==
    refsWritten
    => /\ \A i \in 1..Len(advertisedRefs) :
            LET ref == advertisedRefs[i] IN
            /\ AdvertisedTag(ref) => FileIs(Join(TagsDir, LastPart(ref.name)), IdLine(ref.oid))
            /\ AdvertisedBranch(ref)
               => FileIs(Join(BranchesDir, LastPart(ref.name)), IdLine(ref.oid))
            /\ is_peeled_tag(ref)
               => /\ Join(TagsDir, LastPart(ref.name)) \notin DOMAIN cloneDir.files
                  /\ Join(BranchesDir, LastPart(ref.name)) \notin DOMAIN cloneDir.files
       /\ Join(TagsDir, NameHEAD) \notin DOMAIN cloneDir.files
       /\ Join(BranchesDir, NameHEAD) \notin DOMAIN cloneDir.files

(***************************************************************************)
(* Claims about the refs and the failures of clone (SpecClone).            *)
(***************************************************************************)
\* lines 268-286 have run: the ref files are written and the run has left
\* the phase that writes them
HeadSet == refsWritten /\ phase # "WritingRefs"

\* the index of the advertised HEAD, the indices of the refs of another
\* name at the id of HEAD
HeadIndexes == {i \in 1..Len(advertisedRefs) : advertisedRefs[i].name = NameHEAD}

TargetIndexes ==
    {i \in 1..Len(advertisedRefs) :
        /\ advertisedRefs[i].name # NameHEAD
        /\ \E h \in HeadIndexes :
              /\ \A g \in HeadIndexes : h <= g
              /\ advertisedRefs[i].oid = advertisedRefs[h].oid}

\* "ref: refs/heads/master\n", the HEAD of GitRepo::init
HeadOfInit == Bytes(<<114, 101, 102, 58, 32, 114, 101, 102, 115, 47, 104, 101, 97, 100, 115, 47, 109, 97, 115, 116, 101, 114, 10>>)

\* "ref: {name}\n"
SymrefTo(name) == Cat(Bytes(<<114, 101, 102, 58, 32>>), Cat(name, Rep(LF, 1)))

\* the run failed while the refs and HEAD were written
FailedAtHead ==
    phase = "Failed" /\ Len(trace) >= 2 /\ trace[Len(trace) - 1] = "WritingRefs"

\* C21 as stated: once clone has looked for the target of HEAD, either
\* there is an advertised HEAD and a ref of another name at its id, and then
\* the first such ref has its local file .git/{name} holding "{id}\n" and
\* HEAD holds "ref: {name}\n"; or there is none, and then clone has failed
\* and HEAD holds what init wrote.
C21_HeadTarget ==
    HeadSet
    => IF TargetIndexes # {}
       THEN \E i \in TargetIndexes :
               /\ \A j \in TargetIndexes : i <= j
               /\ FileIs(GitPath(advertisedRefs[i].name), IdLine(advertisedRefs[i].oid))
               /\ FileIs(HeadFile, SymrefTo(advertisedRefs[i].name))
       ELSE /\ FailedAtHead
            /\ FileIs(HeadFile, HeadOfInit)

\* C21 for the names whose directory exists: the same, when the first
\* target of HEAD is named in a directory of the repository
C21_HeadTargetInDir ==
    HeadSet
    => IF TargetIndexes # {}
       THEN \E i \in TargetIndexes :
               /\ \A j \in TargetIndexes : i <= j
               /\ IF Parent(GitPath(advertisedRefs[i].name)) \in cloneDir.dirs
                  THEN /\ FileIs(GitPath(advertisedRefs[i].name), IdLine(advertisedRefs[i].oid))
                       /\ FileIs(HeadFile, SymrefTo(advertisedRefs[i].name))
                  ELSE /\ FailedAtHead
                       /\ FileIs(HeadFile, HeadOfInit)
                       /\ GitPath(advertisedRefs[i].name) \notin DOMAIN cloneDir.files
       ELSE /\ FailedAtHead
            /\ FileIs(HeadFile, HeadOfInit)

\* how the run stands after the refs d that discovery returned
RequestsAfter(d) ==
    /\ phase \in {"idle", "Discovering"} => requests = <<>>
    /\ (phase \notin {"idle", "Discovering"} /\ d.kind = "Ok" /\ d.refs = <<>>)
       => /\ phase = "Failed"
          /\ result \in {"Err", "Panic"}
          /\ trace = <<"Discovering", "Failed">>
          /\ requests = <<>>
    /\ (phase \notin {"idle", "Discovering"} /\ d.kind # "Ok") => requests = <<>>
    /\ (phase \notin {"idle", "Discovering", "Negotiating"} /\ d.kind = "Ok" /\ d.refs # <<>>)
       => /\ requests = <<WantRequest(d.refs[1].oid)>>
          /\ d.refs = advertisedRefs
          /\ \A oid \in {ObjectIdOf(CommitF), ObjectIdOf(CommitDF), IdA} :
                oid # d.refs[1].oid => WantRequest(oid) # requests[1]

\* C22: when discovery returns no refs, clone fails (the `expect` on the
\* first ref panics with its message) and no pack request has been sent;
\* no request is sent before discovery is over or when it fails; when
\* discovery returns refs, clone sends one request, the want line naming
\* the id of the first advertised ref, and never another.
C22_OneRequest == Bind(discover_refs(remote.refs), RequestsAfter)

\* the server advertised no ref: clone has failed and has sent no request
C22_Witness ==
    /\ phase = "Failed"
    /\ trace = <<"Discovering", "Failed">>
    /\ result = "Panic"
    /\ requests = <<>>
    /\ Bind(discover_refs(remote.refs), LAMBDA d : d.kind = "Ok" /\ d.refs = <<>>)

\* the run failed in the phase p
FailedIn(p) == phase = "Failed" /\ Len(trace) >= 2 /\ trace[Len(trace) - 1] = p

\* the pack the server sent does not decode
PackUndecoded == Bind(PackFile_parse(packData, overflowChecks), LAMBDA r : r.kind # "Ok")

\* C29: while clone discovers the refs, requests the pack and decodes it,
\* the destination is not touched, and a failure of one of the three
\* leaves it as it was: no .git directory, no file, no stored object, and
\* the destination directory only if it was there before.
C29_NothingCreatedOnFailure ==
    /\ [][(phase \in {"Discovering", "Negotiating"})
            => (cloneDir' = cloneDir /\ files' = files)]_vars
    /\ [][(phase = "Decoding" /\ PackUndecoded)
            => (cloneDir' = cloneDir /\ files' = files)]_vars
    /\ []((FailedIn("Discovering") \/ FailedIn("Negotiating")
            \/ (FailedIn("Decoding") /\ PackUndecoded))
           => /\ cloneDir.files = <<>>
              /\ cloneDir.dirs \subseteq {<<>>}
              /\ files = <<>>)

\* a pack that does not decode, for a destination that did not exist: clone
\* has failed and there is no directory
C29_Witness ==
    /\ FailedIn("Decoding")
    /\ PackUndecoded
    /\ packData # <<>>
    /\ cloneDir = NoDisk

\* the refs the claim calls branches: under refs/heads
Branches ==
    {i \in 1..Len(advertisedRefs) : StartsWith(advertisedRefs[i].name, Bytes(<<114, 101, 102, 115, 47, 104, 101, 97, 100, 115, 47>>))}

\* the file clone writes for a branch
BranchFile(ref) == Join(BranchesDir, LastPart(ref.name))

\* C30 as stated: once the ref files are written, two advertised branches
\* of different names have different files under refs/remotes/origin, and
\* the file of each advertised branch holds the id of that branch.
C30_BranchFilesApart ==
    refsWritten
    => /\ \A i \in Branches : \A j \in Branches :
            advertisedRefs[i].name # advertisedRefs[j].name
            => BranchFile(advertisedRefs[i]) # BranchFile(advertisedRefs[j])
       /\ \A i \in Branches :
            \E path \in DOMAIN cloneDir.files :
               /\ StartsWith(path, BranchesDir)
               /\ FileIs(path, IdLine(advertisedRefs[i].oid))

\* C30 for branches that differ in the last part of their names
C30_LastPartsApart ==
    refsWritten
    => \A i \in Branches :
          (\A j \in Branches : advertisedRefs[i].name # advertisedRefs[j].name
              => LastPart(advertisedRefs[i].name) # LastPart(advertisedRefs[j].name))
          => FileIs(BranchFile(advertisedRefs[i]), IdLine(advertisedRefs[i].oid))

(***************************************************************************)
(* Claims about the decoding of truncated packs (SpecParse).               *)
(***************************************************************************)
\* buffers with a whole header of version 2 or 3 whose bytes end before
\* the objects the header counts: packs cut after the header, and packs
\* whose header counts more objects than follow
ShortPacks ==
    {pack \in CutPacks : BLen(pack) >= 12}
    \cup {EncodePackAs(PackSig, t[1], t[2], t[3]) :
            t \in {u \in {2, 3} \X (1..3) \X WirePacks : u[2] > Len(u[3])}}

\* the object count of the header of the buffer
CountIn(bytes) == U32FromBe(Slice(bytes, 9, 12))

\* C23 as stated: PackFile::parse returns Ok only with as many objects as
\* the header counts, the entries of the pack in their order; for a buffer
\* whose bytes end before that many objects, it returns an error value
\* (no list of objects, no panic).
C23_TruncatedPackIsError ==
    fnOp = "PackFile::parse"
    => /\ fnOut.kind = "Ok" => BitsOf(Len(fnOut.objects)) = CountIn(fnIn)
       /\ \A objects \in WirePacks, version \in {2, 3}, count \in 0..3 :
             (count <= Len(objects) /\ fnIn = EncodePackAs(PackSig, version, count, objects))
             => fnOut.kind = "Ok" /\ fnOut.objects = SubSeq(Parsed(objects), 1, count)
       /\ fnIn \in ShortPacks => fnOut.kind = "Err"

\* C23 without the error value: Ok only with as many objects as the header
\* counts, in order; a buffer that ends between two objects is a panic
C23_NeverShorter ==
    fnOp = "PackFile::parse"
    => /\ fnOut.kind = "Ok" => BitsOf(Len(fnOut.objects)) = CountIn(fnIn)
       /\ \A objects \in WirePacks, version \in {2, 3}, count \in 0..3 :
             (count <= Len(objects) /\ fnIn = EncodePackAs(PackSig, version, count, objects))
             => fnOut.kind = "Ok" /\ fnOut.objects = SubSeq(Parsed(objects), 1, count)
       /\ \A objects \in WirePacks, version \in {2, 3}, count \in 1..3 :
             (count > Len(objects) /\ fnIn = EncodePackAs(PackSig, version, count, objects))
             => fnOut.kind = "Panic"

(***************************************************************************)
(* Claims about explode_into_repo (SpecPack).                              *)
(***************************************************************************)
\* the checks of the claim on a delta, by what the delta declares: base
\* size, copies in range, adds of at least one byte, target size (0
\* standing for 65536)
DeltaChecks(plan) ==
    /\ plan.base_size = BitsOf(BLen(plan.base.content))
    /\ InRange(plan.base.content, plan.instrs)
    /\ \A k \in 1..Len(plan.instrs) : plan.instrs[k].op = "Add" => plan.instrs[k].size # 0
    /\ BitsOf(BLen(Expected(plan.base.content, plan.instrs)))
           = IF plan.target_size = {} THEN BitsOf(65536) ELSE plan.target_size

\* C24 as stated: an object is stored for a RefDelta only if the delta
\* passes the four checks; a delta that fails one of them stores nothing
\* and ends the operation without success.
C24_StoredOnlyIfChecked ==
    \A k \in 1..Len(resolved) :
        (resolved[k].delta.object_type = "ObjRefDelta" /\ resolved[k].base_found)
        => /\ resolved[k].outcome = "stored" => DeltaChecks(resolved[k].delta.plan)
           /\ ~DeltaChecks(resolved[k].delta.plan)
              => /\ resolved[k].outcome \in {"Err", "Panic"}
                 /\ resolved[k].oid = NoId
                 /\ k = Len(resolved)
                 /\ pc = resolved[k].outcome

\* C24 for the deltas whose size fields read_var_int reads as written
C24_ExceptSizesEndingIn127 ==
    \A k \in 1..Len(resolved) :
        (/\ resolved[k].delta.object_type = "ObjRefDelta"
         /\ resolved[k].base_found
         /\ NoSizeEndsIn127(resolved[k].delta.plan))
        => /\ resolved[k].outcome = "stored" => DeltaChecks(resolved[k].delta.plan)
           /\ ~DeltaChecks(resolved[k].delta.plan)
              => /\ resolved[k].outcome \in {"Err", "Panic"}
                 /\ resolved[k].oid = NoId
                 /\ k = Len(resolved)
                 /\ pc = resolved[k].outcome

\* the object of a commit, tree or blob entry of a pack
ObjectOfEntry(entry) ==
    [object_type |-> CASE entry.object_type = "ObjCommit" -> "Commit"
                       [] entry.object_type = "ObjTree" -> "Tree"
                       [] entry.object_type = "ObjBlob" -> "Blob",
     content |-> entry.data]

\* the object is in the store fs, under its id
InStore(fs, object) ==
    Bind(get_object(fs, ObjectIdOf(object)), LAMBDA o :
         o.ok /\ o.object_type = object.object_type /\ o.content = object.content)

\* C25: the turn of the first loop that takes a commit, tree or blob entry
\* stores its object; the turn that takes a tag stores nothing and the loop
\* goes on; no delta is resolved while entries are left; what is stored
\* stays stored.
C25_FullObjectsFirst ==
    /\ [][(pc = "storing"
            /\ Head(entries).object_type \in {"ObjCommit", "ObjTree", "ObjBlob"})
           => /\ InStore(files', ObjectOfEntry(Head(entries)))
              /\ resolved' = <<>>]_vars
    /\ [][(pc = "storing" /\ Head(entries).object_type = "ObjTag")
           => /\ files' = files
              /\ stored' = stored
              /\ deltas' = deltas
              /\ pc' \in {"storing", "deltas"}]_vars
    /\ [][resolved' # resolved => (entries = <<>> /\ pc = "deltas")]_vars
    /\ [][\A s \in stored : InStore(files', s.obj)]_vars
    /\ [](pc \in {"idle", "storing"} => resolved = <<>>)
    /\ [](pc \notin {"idle", "storing"} => entries = <<>>)

\* the pack of a tag, a blob, an ofs-delta and a RefDelta over the blob has
\* been exploded: the blob and the object of the delta are stored, the tag
\* is not
C25_Witness ==
    /\ pc = "Ok"
    /\ Len(resolved) = 2
    /\ resolved[1].delta.object_type = "ObjOfsDelta"
    /\ resolved[2].outcome = "stored"
    /\ InStore(files, FirstOfChain.base)
    /\ Cardinality(stored) = 2
    /\ ~InStore(files, [object_type |-> "Blob", content |-> Bytes(<<116>>)])

\* the entry r of the history is over the object an earlier delta stored
OverEarlier(k) ==
    \E j \in 1..(k - 1) : resolved[j].outcome = "stored" /\ resolved[j].oid = resolved[k].delta.base

BaseMissing ==
    /\ pc = "deltas"
    /\ deltas # <<>>
    /\ Head(deltas).object_type = "ObjRefDelta"
    /\ ~get_object(files, Head(deltas).base).ok

\* C27: the turn that takes a RefDelta whose base is not in the store ends
\* the operation with an error and leaves the store as it was; after it
\* every object stored before is still in the store, with its content.
C27_MissingBaseIsError ==
    /\ [][BaseMissing => (pc' = "Err" /\ files' = files /\ stored' = stored)]_vars
    /\ [](\A k \in 1..Len(resolved) :
             (resolved[k].delta.object_type = "ObjRefDelta" /\ ~resolved[k].base_found)
             => /\ resolved[k].outcome = "Err"
                /\ k = Len(resolved)
                /\ pc = "Err")
    /\ [](pc = "Err" => \A s \in stored : InStore(files, s.obj))
    /\ [][pc = "Err" => FALSE]_vars

\* a delta over the object of a delta that comes after it: the operation
\* has failed and the blob stored before it is in the store
C27_Witness ==
    /\ pc = "Err"
    /\ Len(resolved) = 1
    /\ resolved[1].delta = RefDelta(ChainPlan(FirstOfChain, <<Copy(0, 2)>>))
    /\ deltas = <<RefDelta(FirstOfChain)>>
    /\ stored # {}
    /\ InStore(files, FirstOfChain.base)

(***************************************************************************)
(* Claim about the trees write_tree writes (SpecTree).                     *)
(***************************************************************************)
\* Tree::parse of the content gives the entries, each with one of the three
\* modes
ParsesTo(content, tree_entries) ==
    Bind(Tree_parse(content, <<>>), LAMBDA t :
         /\ t.kind = "Ok"
         /\ t.entries = tree_entries
         /\ \A i \in 1..Len(t.entries) : t.entries[i].mode \in {ModeDir, Mode00644, Mode00755})

\* C28 as stated: write_tree_dir on a directory of files and directories
\* writes a tree whose content Tree::parse gives back as the entries of the
\* directory (.git apart) sorted by name, equal in mode, type, name and id,
\* every mode one of "40000", "00644", "00755".
C28_TreeParseRoundTrip ==
    fnOp = "write_tree"
    => \A k \in 1..Len(fnIn) :
          OnlyFilesAndDirs(fnIn[k])
          => /\ fnOut[k].kind = "Ok"
             /\ Len(fnOut[k].written) = Len(Written(fnIn[k]))
             /\ Ascending(fnOut[k].written)
             /\ ParsesTo(fnOut[k].content, fnOut[k].written)

\* C28 for the trees that are written: those without entries
C28_WrittenTreesParse ==
    fnOp = "write_tree"
    => \A k \in 1..Len(fnIn) :
          fnOut[k].kind = "Ok"
          => /\ Written(fnIn[k]) = <<>>
             /\ fnOut[k].content = <<>>
             /\ ParsesTo(fnOut[k].content, fnOut[k].written)

(***************************************************************************)
(* Specifications.                                                         *)
(***************************************************************************)
Init == StoreInit /\ PktInit /\ VarIntInit /\ ExplodeInit /\ FnInit /\ CloneInit

Next == StoreNext

\* the object store
Spec == Init /\ [][Next]_vars

\* the packet-line codec
SpecPkt == Init /\ [][PktNext]_vars

\* the varint readers
SpecVarInt == Init /\ [][VarIntNext]_vars

\* explode_into_repo
SpecPack == Init /\ [][PackNext]_vars

\* PackFile::parse
SpecParse == Init /\ [][ParseNext]_vars

\* discover_refs
SpecRefs == Init /\ [][RefsNext]_vars

\* request_pack
SpecRequest == Init /\ [][RequestNext]_vars

\* write_tree
SpecTree == Init /\ [][TreeNext]_vars

\* clone
SpecClone == Init /\ [][CloneNext]_vars

====
